---------------------------- MODULE Spec2Model ----------------------------
(***************************************************************************)
(* Model of the two scripts of the repository.                             *)
(*                                                                         *)
(*   src/plugins/direct-spend-visualizer/skills/scripts/                   *)
(*       visualize_direct_spend.py     the spend chart renderer            *)
(*   src/plugins/ppt-generator/skills/scripts/                             *)
(*       create_ppt.py                 the slide deck assembler            *)
(*                                                                         *)
(* Python values are represented as follows.                               *)
(*   dict            a TLA+ function whose domain is the set of keys that  *)
(*                   are present (a missing key is not in the DOMAIN)      *)
(*   list            a sequence                                            *)
(*   date string     a natural number d, standing for the d-th string of   *)
(*                   an increasing series of ISO dates ("2024-01-0d"):     *)
(*                   Python compares the strings, the model the numbers    *)
(*   number          a record [t, n]:                                      *)
(*                     [t |-> "int",   n |-> k]   the Python int k         *)
(*                     [t |-> "float", n |-> k]   the float k * 2.0**60    *)
(*                     [t |-> "null",  n |-> 0]   None (JSON null)         *)
(*   an outcome      a record [exc, val]: exc = "" and the returned value, *)
(*                   or the name of the exception raised and its argument  *)
(***************************************************************************)
EXTENDS Integers, Sequences, FiniteSets, TLC

VARIABLES
    pc,            \* position of the running script or call
    argv,          \* sys.argv[1:]: <<>> or <<path>>
    text,          \* what the file named by argv, or stdin, holds
    json_data,     \* the argument of visualize_direct_spend
    result,        \* what visualize_direct_spend returned
    stdout,        \* what the script printed
    uncaught,      \* the exception that ended the process, "" when none
    records,       \* the argument of parse_direct_spend_data
    spend_by_url,  \* outcome of parse_direct_spend_data(records)
    data,          \* the argument of create_ascii_line_chart
    chart,         \* outcome of create_ascii_line_chart(data, title)
    files,         \* the files that exist on disk (assets, images, JSON)
    args,          \* the arguments of the deck assembler function called
    ret,           \* what that function returned
    prs,           \* the presentation being built
    consumed,      \* how many slide specs the assembling loop has taken
    exit_code,     \* exit status of the deck assembler, -1 while running
    stderr         \* what the deck assembler wrote to standard error

vars == <<pc, argv, text, json_data, result, stdout, uncaught,
          records, spend_by_url, data, chart,
          files, args, ret, prs, consumed, exit_code, stderr>>

\* the variables only the deck assembler uses, and only the renderer
pptVars == <<files, args, ret, prs, consumed, exit_code, stderr>>
rendererVars == <<text, result, records, spend_by_url, data, chart>>

(***************************************************************************)
(* Bounds of the model.                                                    *)
(***************************************************************************)
MaxLen == 3
MaxId == 2
MaxDate == 2

(***************************************************************************)
(* Outcomes of a call.                                                     *)
(***************************************************************************)
Ok(v) == [exc |-> "", val |-> v]
Raise(e, a) == [exc |-> e, val |-> a]
NotCalled == [exc |-> "not called", val |-> <<>>]

\* the state of the script that is not running
NoPresentation == [scheme |-> FALSE, slides |-> <<>>]
PptIdle ==
    /\ files = {} /\ args = <<>> /\ ret = NotCalled
    /\ prs = NoPresentation /\ consumed = 0 /\ exit_code = -1 /\ stderr = <<>>
RendererIdle ==
    /\ text = <<>> /\ result = <<>> /\ records = <<>>
    /\ spend_by_url = NotCalled /\ data = <<>> /\ chart = NotCalled

(***************************************************************************)
(* Python numbers.  The float k * 2.0**60 absorbs every int of the model:  *)
(* the spacing of doubles at 2**60 is 256, so x + n = x and x - n = x for  *)
(* 0 <= n < 128, and the sums of the model stay far below 128.             *)
(***************************************************************************)
PyInt(k) == [t |-> "int", n |-> k]
PyFloat60(k) == [t |-> "float", n |-> k]
PyNone == [t |-> "null", n |-> 0]

IsNumber(v) == v.t \in {"int", "float"}

\* a < b on numbers (both operands numbers)
PyLess(a, b) ==
    IF a.t = "float" /\ b.t = "float" THEN a.n < b.n
    ELSE IF a.t = "float" THEN FALSE        \* k * 2**60 < int, k >= 1
    ELSE IF b.t = "float" THEN TRUE
    ELSE a.n < b.n

\* a == b on numbers: Python compares int and float by value
PyEq(a, b) == ~PyLess(a, b) /\ ~PyLess(b, a)

\* a + b
PyAdd(a, b) ==
    IF a.t = "float" /\ b.t = "float" THEN PyFloat60(a.n + b.n)
    ELSE IF a.t = "float" THEN a
    ELSE IF b.t = "float" THEN b
    ELSE PyInt(a.n + b.n)

\* a - b for a >= b; 0.0 is PyFloat60(0)
PySub(a, b) ==
    IF a.t = "float" /\ b.t = "float" THEN PyFloat60(a.n - b.n)
    ELSE IF a.t = "float" THEN a
    ELSE PyInt(a.n - b.n)

PyIsZero(a) == a.n = 0

(***************************************************************************)
(* Input records of the FeedMob get_direct_spends API.                     *)
(***************************************************************************)
RequiredKeys ==
    <<"feedmob_click_url_id", "date", "feedmob_net_spend", "feedmob_gross_spend">>

MkRecord(id, date, net, gross, name) ==
    [feedmob_click_url_id |-> id, date |-> date, feedmob_net_spend |-> net,
     feedmob_gross_spend |-> gross, campaign_name |-> name]

\* the dict r without key k
Without(r, k) == [f \in DOMAIN r \ {k} |-> r[f]]

SeqsUpTo(S, n) == UNION {[1..k -> S] : k \in 0..n}

(***************************************************************************)
(* parse_direct_spend_data                                                 *)
(***************************************************************************)
\* the first required key the record lacks, "" when it has them all:
\* the order of the subscripts at lines 21-25
FirstMissingKey_NameToo(record) ==
    IF "feedmob_click_url_id" \notin DOMAIN record THEN "feedmob_click_url_id"
    ELSE IF "date" \notin DOMAIN record THEN "date"
    ELSE IF "feedmob_net_spend" \notin DOMAIN record THEN "feedmob_net_spend"
    ELSE IF "feedmob_gross_spend" \notin DOMAIN record THEN "feedmob_gross_spend"
    ELSE IF "campaign_name" \notin DOMAIN record THEN "campaign_name"
    ELSE ""

FirstMissingKey(record) ==
    IF \A i \in 1..Len(RequiredKeys) : RequiredKeys[i] \in DOMAIN record THEN ""
    ELSE RequiredKeys[CHOOSE i \in 1..Len(RequiredKeys) :
                        /\ RequiredKeys[i] \notin DOMAIN record
                        /\ \A j \in 1..(i - 1) : RequiredKeys[j] \in DOMAIN record]

\* the dict appended to the group, lines 22-27
Entry(record) ==
    [date |-> record.date,
     net_spend |-> record.feedmob_net_spend,
     gross_spend |-> record.feedmob_gross_spend,
     campaign_name |-> IF "campaign_name" \in DOMAIN record
                       THEN record.campaign_name ELSE "Unknown"]

\* spend_by_url[k].append(e) on a defaultdict(list); the dict is a sequence
\* of [key, items] in insertion order, as a Python dict keeps it
DictAppend_Overwrite(spend, k, e) ==
    IF \E i \in 1..Len(spend) : spend[i].key = k
    THEN [i \in 1..Len(spend) |->
            IF spend[i].key = k THEN [key |-> k, items |-> <<e>>] ELSE spend[i]]
    ELSE Append(spend, [key |-> k, items |-> <<e>>])

DictAppend(spend, k, e) ==
    IF \E i \in 1..Len(spend) : spend[i].key = k
    THEN [i \in 1..Len(spend) |->
            IF spend[i].key = k
            THEN [key |-> k, items |-> Append(spend[i].items, e)]
            ELSE spend[i]]
    ELSE Append(spend, [key |-> k, items |-> <<e>>])

\* the loop of lines 20-27 from record i on
RECURSIVE GroupLoop(_, _, _)
GroupLoop(rs, i, spend) ==
    IF i > Len(rs) THEN Ok(spend)
    ELSE IF FirstMissingKey(rs[i]) # "" THEN Raise("KeyError", FirstMissingKey(rs[i]))
    ELSE GroupLoop(rs, i + 1,
                   DictAppend(spend, rs[i].feedmob_click_url_id, Entry(rs[i])))

\* list.sort(key=lambda x: x['date']): stable, ascending
RECURSIVE InsertByDate(_, _)
InsertByDate(sorted, x) ==
    IF sorted = <<>> THEN <<x>>
    ELSE IF sorted[Len(sorted)].date <= x.date THEN Append(sorted, x)
    ELSE Append(InsertByDate(SubSeq(sorted, 1, Len(sorted) - 1), x),
                sorted[Len(sorted)])

RECURSIVE SortFrom(_, _, _)
SortFrom(items, i, sorted) ==
    IF i > Len(items) THEN sorted
    ELSE SortFrom(items, i + 1, InsertByDate(sorted, items[i]))

SortByDate_Skip(items) == items

SortByDate(items) == SortFrom(items, 1, <<>>)

\* lines 29-31
SortGroups(spend) ==
    [i \in 1..Len(spend) |->
        [key |-> spend[i].key, items |-> SortByDate(spend[i].items)]]

parse_direct_spend_data(rs) ==
    LET grouped == GroupLoop(rs, 1, <<>>)
    IN  IF grouped.exc # "" THEN grouped ELSE Ok(SortGroups(grouped.val))

(***************************************************************************)
(* Calls of parse_direct_spend_data on bounded record lists.  The net      *)
(* spend of a record is its position in the input, or 0 in every record,   *)
(* so that records are told apart or are equal as a whole.                 *)
(***************************************************************************)
ParseInputs ==
    {[i \in DOMAIN s |->
        LET r == MkRecord(s[i].id, s[i].date,
                          PyInt(IF tagged THEN i ELSE 0), PyInt(0), "A")
        IN  IF s[i].named THEN r ELSE Without(r, "campaign_name")] :
     s \in SeqsUpTo([id : 1..MaxId, date : 1..MaxDate, named : BOOLEAN], MaxLen),
     tagged \in BOOLEAN}

InitParse ==
    /\ PptIdle
    /\ pc = "call parse"
    /\ records \in ParseInputs
    /\ spend_by_url = NotCalled
    /\ argv = <<>> /\ text = <<>> /\ json_data = <<>> /\ result = <<>>
    /\ stdout = <<>> /\ uncaught = ""
    /\ data = <<>> /\ chart = NotCalled

CallParse ==
    /\ UNCHANGED pptVars
    /\ pc = "call parse"
    /\ spend_by_url' = parse_direct_spend_data(records)
    /\ pc' = "returned"
    /\ UNCHANGED <<argv, text, json_data, result, stdout, uncaught,
                   records, data, chart>>

NextParse == CallParse

SpecParse == InitParse /\ [][NextParse]_vars

(***************************************************************************)
(* create_ascii_line_chart(data, title, width=60, height=15)               *)
(*                                                                         *)
(* The returned text is kept as its parts: the title, the plot (one line   *)
(* per row, top row first, each line the characters after the y-axis       *)
(* label), the date labels, the data table and the TOTAL row.  The ruler   *)
(* lines, the legend and the padding of the columns are fixed text and     *)
(* are left out; a number printed with .2f is kept as the number.          *)
(***************************************************************************)
height == 15

\* min(all_values) and max(all_values), lines 47-48: comparing None with
\* anything raises TypeError, and all_values holds at least two values
HasNone(values) == \E i \in DOMAIN values : ~IsNumber(values[i])

MinOf(values) ==
    CHOOSE v \in {values[i] : i \in DOMAIN values} :
        \A i \in DOMAIN values : ~PyLess(values[i], v)

MaxOf(values) ==
    CHOOSE v \in {values[i] : i \in DOMAIN values} :
        \A i \in DOMAIN values : ~PyLess(v, values[i])

\* lines 50-51: max_val = min_val + 1 when the two are equal
BumpMax_None(min_val, max_val) == max_val

BumpMax(min_val, max_val) ==
    IF PyEq(max_val, min_val) THEN PyAdd(min_val, PyInt(1)) ELSE max_val

\* scale(value), lines 61-62: int((value - min_val) / (max_val - min_val)
\* * (height - 1)).  Between ints the quotient of the floats, truncated,
\* is the integer quotient (so for every denominator below 60); an int
\* over a float k * 2**60 is below 2**-53 and truncates to 0.
scale(value, min_val, max_val) ==
    LET num == PySub(value, min_val)
        den == PySub(max_val, min_val)
    IN  IF PyIsZero(den) THEN Raise("ZeroDivisionError", "float division by zero")
        ELSE IF den.t = "float" /\ num.t = "int" THEN Ok(0)
        ELSE Ok((num.n * (height - 1)) \div den.n)

\* the character of data point i in the line of a row, lines 77-84
Mark_Swapped(net_row, gross_row, row) ==
    IF net_row = row /\ gross_row = row THEN "*"
    ELSE IF net_row = row THEN "G"
    ELSE IF gross_row = row THEN "N"
    ELSE " "

Mark(net_row, gross_row, row) ==
    IF net_row = row /\ gross_row = row THEN "*"
    ELSE IF net_row = row THEN "N"
    ELSE IF gross_row = row THEN "G"
    ELSE " "

\* the line of a row, lines 76-87: one character per data point and a
\* blank between two points
PlotLine(net_scaled, gross_scaled, row) ==
    [c \in 1..(2 * Len(net_scaled) - 1) |->
        IF c % 2 = 1 THEN Mark(net_scaled[(c + 1) \div 2], gross_scaled[(c + 1) \div 2], row)
        ELSE " "]

\* lines 68-89: the rows from height - 1 down to 0
Plot(net_scaled, gross_scaled) ==
    [j \in 1..height |->
        [row |-> height - j, line |-> PlotLine(net_scaled, gross_scaled, height - j)]]

\* lines 95-102: the first and the last date from three dates on, else the first
DateLabels(dates) ==
    IF Len(dates) >= 3 THEN <<dates[1], dates[Len(dates)]>>
    ELSE IF Len(dates) > 0 THEN <<dates[1]>>
    ELSE <<>>

\* total_net and total_gross, lines 114-121: the sum of the first i values
RECURSIVE TotalUpTo(_, _)
TotalUpTo(values, i) ==
    IF i = 0 THEN PyInt(0) ELSE PyAdd(TotalUpTo(values, i - 1), values[i])

Total_SkipFirst(values) ==
    IF values = <<>> THEN PyInt(0) ELSE TotalUpTo(Tail(values), Len(values) - 1)

Total(values) == TotalUpTo(values, Len(values))

create_ascii_line_chart(d, title) ==
    IF d = <<>> THEN Ok([kind |-> "No data to display"])
    ELSE
    LET dates == [i \in DOMAIN d |-> d[i].date]
        net_spends == [i \in DOMAIN d |-> d[i].net_spend]
        gross_spends == [i \in DOMAIN d |-> d[i].gross_spend]
        all_values == net_spends \o gross_spends
    IN  IF HasNone(all_values)
        THEN Raise("TypeError", "'<' not supported between instances")
        ELSE
        LET min_val == MinOf(all_values)
            max_val == BumpMax(min_val, MaxOf(all_values))
            net_out == [i \in DOMAIN d |-> scale(net_spends[i], min_val, max_val)]
            gross_out == [i \in DOMAIN d |-> scale(gross_spends[i], min_val, max_val)]
        IN  IF \E i \in DOMAIN d : net_out[i].exc # ""
            THEN net_out[CHOOSE i \in DOMAIN d : net_out[i].exc # ""]
            ELSE IF \E i \in DOMAIN d : gross_out[i].exc # ""
            THEN gross_out[CHOOSE i \in DOMAIN d : gross_out[i].exc # ""]
            ELSE Ok([kind |-> "chart",
                     title |-> title,
                     plot |-> Plot([i \in DOMAIN d |-> net_out[i].val],
                                   [i \in DOMAIN d |-> gross_out[i].val]),
                     date_labels |-> DateLabels(dates),
                     table |-> [i \in DOMAIN d |->
                                  [date |-> dates[i], net |-> net_spends[i],
                                   gross |-> gross_spends[i]]],
                     total_net |-> Total(net_spends),
                     total_gross |-> Total(gross_spends)])

(***************************************************************************)
(* Calls of create_ascii_line_chart on bounded groups: records of          *)
(* increasing dates whose spends are small ints, the float 2.0**60 or None.*)
(***************************************************************************)
MaxPts == 2
MaxVal == 2

ChartValues == {PyInt(k) : k \in 0..MaxVal} \cup {PyFloat60(1), PyNone}

ChartInputs ==
    {[i \in DOMAIN s |->
        [date |-> i, net_spend |-> s[i].net, gross_spend |-> s[i].gross,
         campaign_name |-> "Unknown"]] :
     s \in SeqsUpTo([net : ChartValues, gross : ChartValues], MaxPts)}

ChartTitle == [click_url_id |-> 1, campaign_name |-> "Unknown"]

InitChart ==
    /\ PptIdle
    /\ pc = "call chart"
    /\ data \in ChartInputs
    /\ chart = NotCalled
    /\ argv = <<>> /\ text = <<>> /\ json_data = <<>> /\ result = <<>>
    /\ stdout = <<>> /\ uncaught = ""
    /\ records = <<>> /\ spend_by_url = NotCalled

CallChart ==
    /\ UNCHANGED pptVars
    /\ pc = "call chart"
    /\ chart' = create_ascii_line_chart(data, ChartTitle)
    /\ pc' = "returned"
    /\ UNCHANGED <<argv, text, json_data, result, stdout, uncaught,
                   records, spend_by_url, data>>

NextChart == CallChart

SpecChart == InitChart /\ [][NextChart]_vars

(***************************************************************************)
(* visualize_direct_spend(json_data)                                       *)
(*                                                                         *)
(* A JSON document is [t |-> "None"], [t |-> "list", items |-> sequence]   *)
(* or [t |-> "dict", d |-> function of the keys].  A Python str is         *)
(* [t |-> "str", chars, doc]: chars tells whether the text is empty, is    *)
(* no JSON, or is the JSON text of doc.  The returned text is kept as the  *)
(* sequence of its parts: the chart blocks that "\n\n" joins, or the one   *)
(* message.                                                                *)
(***************************************************************************)
JsonNull == [t |-> "None"]
JsonList(items) == [t |-> "list", items |-> items]
JsonDict(d) == [t |-> "dict", d |-> d]
EmptyDict == [k \in {} |-> JsonNull]

JsonText(doc) == [t |-> "str", chars |-> "json", doc |-> doc]
EmptyText == [t |-> "str", chars |-> "empty", doc |-> JsonNull]
MalformedText == [t |-> "str", chars |-> "malformed", doc |-> JsonNull]

\* json.loads, line 136: a text that is empty or no JSON raises
\* JSONDecodeError
json_loads(s) ==
    IF s.chars = "json" THEN Ok(s.doc)
    ELSE Raise("JSONDecodeError", "Expecting value")

\* lines 141-144
ExtractRecords_WrongKey(doc) ==
    IF doc.t = "dict" /\ "records" \in DOMAIN doc.d THEN doc.d.records ELSE doc

ExtractRecords(doc) ==
    IF doc.t = "dict" /\ "data" \in DOMAIN doc.d THEN doc.d.data ELSE doc

\* `not records`, line 146: None, [] and {} are false
Falsy_NoneOnly(v) == v.t = "None"

Falsy(v) ==
    \/ v.t = "None"
    \/ v.t = "list" /\ v.items = <<>>
    \/ v.t = "dict" /\ DOMAIN v.d = {}

NoDataMessage == <<[kind |-> "No direct spend data found for the specified parameters."]>>

\* a title that takes the campaign name of the group's last entry
Title_LastEntry(group) ==
    [click_url_id |-> group.key,
     campaign_name |-> group.items[Len(group.items)].campaign_name]

\* f"Click URL #{click_url_id}: {campaign_name}", lines 156-157
Title(group) ==
    [click_url_id |-> group.key, campaign_name |-> group.items[1].campaign_name]

\* the loop of lines 155-159 from group g on; the outcome carries the
\* list `output` as it is when the loop ends or raises
RECURSIVE RenderLoop(_, _, _)
RenderLoop(spend, g, output) ==
    IF g > Len(spend) THEN [exc |-> "", val |-> output, output |-> output]
    ELSE LET c == create_ascii_line_chart(spend[g].items, Title(spend[g]))
         IN  IF c.exc # "" THEN [exc |-> c.exc, val |-> c.val, output |-> output]
             ELSE RenderLoop(spend, g + 1, Append(output, c.val))

\* the body of the try statement, lines 134-161.  Iterating a dict gives
\* its keys, and subscripting a str key with a str raises TypeError.
TryBody(j) ==
    LET loaded == IF j.t = "str" THEN json_loads(j) ELSE Ok(j)
    IN  IF loaded.exc # ""
        THEN [exc |-> loaded.exc, val |-> loaded.val, output |-> <<>>]
        ELSE
        LET recs == ExtractRecords(loaded.val)
        IN  IF Falsy(recs) THEN [exc |-> "", val |-> NoDataMessage, output |-> <<>>]
            ELSE IF recs.t = "dict" /\ DOMAIN recs.d # {}
            THEN [exc |-> "TypeError", val |-> "string indices must be integers",
                  output |-> <<>>]
            ELSE
            LET parsed == parse_direct_spend_data(
                              IF recs.t = "list" THEN recs.items ELSE <<>>)
            IN  IF parsed.exc # ""
                THEN [exc |-> parsed.exc, val |-> parsed.val, output |-> <<>>]
                ELSE RenderLoop(parsed.val, 1, <<>>)

\* the except clauses, lines 163-166
ExceptClause_KeepOutput(body) ==
    Append(body.output, [kind |-> "Error", exc |-> body.exc, arg |-> body.val])

ExceptClause(body) ==
    IF body.exc = "JSONDecodeError"
    THEN <<[kind |-> "Error: Invalid JSON data", exc |-> body.exc, arg |-> body.val]>>
    ELSE <<[kind |-> "Error", exc |-> body.exc, arg |-> body.val]>>

visualize_direct_spend(j) ==
    LET body == TryBody(j)
    IN  IF body.exc = "" THEN body.val ELSE ExceptClause(body)

(***************************************************************************)
(* Calls of visualize_direct_spend.  The records of the inputs are taken   *)
(* from a table of sample records, one copy per click URL id.              *)
(***************************************************************************)
MaxRecords == 2

SampleRecords(id) ==
    {MkRecord(id, 1, PyInt(1), PyInt(2), "A"),
     MkRecord(id, 2, PyInt(2), PyInt(1), "B"),
     MkRecord(id, 1, PyInt(1), PyInt(1), "B"),
     Without(MkRecord(id, 2, PyInt(0), PyInt(0), "A"), "campaign_name"),
     Without(MkRecord(id, 1, PyInt(10), PyInt(12), "A"), "campaign_name"),
     MkRecord(id, 2, PyFloat60(1), PyFloat60(1), "A"),
     MkRecord(id, 1, PyNone, PyInt(1), "A"),
     Without(MkRecord(id, 1, PyInt(1), PyInt(2), "A"), "feedmob_click_url_id"),
     Without(MkRecord(id, 1, PyInt(1), PyInt(2), "A"), "date"),
     Without(MkRecord(id, 1, PyInt(1), PyInt(2), "A"), "feedmob_net_spend"),
     Without(MkRecord(id, 1, PyInt(1), PyInt(2), "A"), "feedmob_gross_spend")}

VisRecords == UNION {SampleRecords(id) : id \in 1..MaxId}

RecordLists == SeqsUpTo(VisRecords, MaxRecords)

\* the documents: null, {}, an object with another key, and each record
\* list bare, under the key `data`, and `data` null
Documents ==
    {JsonNull, JsonDict(EmptyDict), JsonDict([message |-> JsonNull]),
     JsonDict([data |-> JsonNull])}
    \cup {JsonList(rs) : rs \in RecordLists}
    \cup {JsonDict([data |-> JsonList(rs)]) : rs \in RecordLists}

Texts == {EmptyText, MalformedText} \cup {JsonText(doc) : doc \in Documents}

InitVisualize ==
    /\ PptIdle
    /\ pc = "call visualize"
    /\ json_data \in Documents \cup Texts
    /\ result = <<>>
    /\ argv = <<>> /\ text = <<>> /\ stdout = <<>> /\ uncaught = ""
    /\ records = <<>> /\ spend_by_url = NotCalled
    /\ data = <<>> /\ chart = NotCalled

CallVisualize ==
    /\ UNCHANGED pptVars
    /\ pc = "call visualize"
    /\ result' = visualize_direct_spend(json_data)
    /\ pc' = "returned"
    /\ UNCHANGED <<argv, text, json_data, stdout, uncaught,
                   records, spend_by_url, data, chart>>

NextVisualize == CallVisualize

SpecVisualize == InitVisualize /\ [][NextVisualize]_vars

(***************************************************************************)
(* The script run as __main__, lines 169-179.  argv names no file, a file  *)
(* that exists or a file that does not; text is what the file or stdin     *)
(* holds.  An exception nothing catches ends the process with a traceback. *)
(***************************************************************************)
MainTexts ==
    {EmptyText, MalformedText}
    \cup {JsonText(doc) : doc \in {JsonNull, JsonDict(EmptyDict)}}
    \cup {JsonText(JsonList(rs)) : rs \in SeqsUpTo(VisRecords, 1)}
    \cup {JsonText(JsonDict([data |-> JsonList(rs)])) : rs \in SeqsUpTo(VisRecords, 1)}

Init ==
    /\ PptIdle
    /\ pc = "start"
    /\ argv \in {<<>>, <<"present">>, <<"missing">>}
    /\ text \in MainTexts
    /\ argv = <<"missing">> => text = EmptyText
    /\ json_data = <<>> /\ result = <<>> /\ stdout = <<>> /\ uncaught = ""
    /\ records = <<>> /\ spend_by_url = NotCalled
    /\ data = <<>> /\ chart = NotCalled

\* lines 170-173: open(sys.argv[1], 'r') and f.read(), outside any try
ReadFile ==
    /\ UNCHANGED pptVars
    /\ pc = "start"
    /\ Len(argv) > 0
    /\ IF argv[1] = "missing"
       THEN /\ uncaught' = "FileNotFoundError"
            /\ pc' = "exited"
            /\ UNCHANGED json_data
       ELSE /\ json_data' = text
            /\ pc' = "read"
            /\ UNCHANGED uncaught
    /\ UNCHANGED <<argv, text, result, stdout, records, spend_by_url, data, chart>>

\* lines 174-176: sys.stdin.read()
ReadStdin ==
    /\ UNCHANGED pptVars
    /\ pc = "start"
    /\ Len(argv) = 0
    /\ json_data' = text
    /\ pc' = "read"
    /\ UNCHANGED <<argv, text, result, stdout, uncaught,
                   records, spend_by_url, data, chart>>

\* line 178
Visualize ==
    /\ UNCHANGED pptVars
    /\ pc = "read"
    /\ result' = visualize_direct_spend(json_data)
    /\ pc' = "visualized"
    /\ UNCHANGED <<argv, text, json_data, stdout, uncaught,
                   records, spend_by_url, data, chart>>

\* line 179
PrintResult ==
    /\ UNCHANGED pptVars
    /\ pc = "visualized"
    /\ stdout' = result
    /\ pc' = "exited"
    /\ UNCHANGED <<argv, text, json_data, result, uncaught,
                   records, spend_by_url, data, chart>>

Next == ReadFile \/ ReadStdin \/ Visualize \/ PrintResult

Spec == Init /\ [][Next]_vars

(***************************************************************************)
(* create_ppt.py.  Strings.                                                *)
(*                                                                         *)
(* A Python string is a sequence of tokens: the token " " is one white     *)
(* space character, every other token is a word, a maximal run of          *)
(* characters without white space.  The strings given to the functions     *)
(* never hold two words side by side; only the ellipsis that               *)
(* optimize_content_for_6x6 appends follows a word directly.               *)
(***************************************************************************)
Space == " "
Ellipsis == "..."

\* str.split(): the words of the line, white space dropped
split(line) == SelectSeq(line, LAMBDA t : t # Space)

\* ' '.join(words)
RECURSIVE join(_)
join(words) ==
    IF Len(words) <= 1 THEN words
    ELSE <<Head(words), Space>> \o join(Tail(words))

\* s[:n] for n >= 0
Slice(s, n) == SubSeq(s, 1, IF Len(s) < n THEN Len(s) ELSE n)

(***************************************************************************)
(* optimize_content_for_6x6, lines 206-221.                                *)
(***************************************************************************)
MaxLines == 6
MaxWords == 6

\* the ellipsis left out
Truncate_NoMarker(line) ==
    LET words == split(line)
    IN  IF Len(words) > MaxWords THEN join(Slice(words, MaxWords)) ELSE line

\* lines 211-219: the body of the loop, what is appended for one line
Truncate(line) ==
    LET words == split(line)
    IN  IF Len(words) > MaxWords
        THEN join(Slice(words, MaxWords)) \o <<Ellipsis>>
        ELSE line

optimize_content_for_6x6(content) ==
    LET first == Slice(content, MaxLines)
    IN  [i \in 1..Len(first) |-> Truncate(first[i])]

(***************************************************************************)
(* The bullet lists the functions are called with: MaxItems lines at most, *)
(* the sample lines in rotation and any one of them at any one place.      *)
(***************************************************************************)
MaxItems == 7

SampleLines ==
    << <<"Team", Space, "update">>,
       <<"Q3", Space, Space, "results">>,
       <<"We", Space, "Improve", Space, "reach", Space, "for", Space,
         "every", Space, "client">>,
       <<"Revenue", Space, "grew", Space, "25%", Space, "across", Space,
         "all", Space, "key", Space, "markets">>,
       <<Space, "Plans", Space, "to", Space, "deliver", Space, "a", Space,
         "new", Space, "app", Space, Space, "in", Space, "May", Space>> >>

BulletLists ==
    {[i \in 1..n |-> IF i = p THEN SampleLines[l]
                     ELSE SampleLines[((i + s) % Len(SampleLines)) + 1]] :
        n \in 0..MaxItems, s \in 1..Len(SampleLines),
        p \in 1..MaxItems, l \in 1..Len(SampleLines)}

InitSixBySix ==
    /\ RendererIdle
    /\ pc = "call optimize"
    /\ args \in BulletLists
    /\ ret = NotCalled
    /\ files = {} /\ prs = NoPresentation /\ consumed = 0 /\ exit_code = -1 /\ stderr = <<>>
    /\ argv = <<>> /\ json_data = <<>> /\ stdout = <<>> /\ uncaught = ""

CallOptimize ==
    /\ pc = "call optimize"
    /\ ret' = Ok(optimize_content_for_6x6(args))
    /\ pc' = "optimized"
    /\ UNCHANGED <<argv, stderr, json_data, stdout, uncaught, files, args, prs,
                   consumed, exit_code>>
    /\ UNCHANGED rendererVars

NextSixBySix == CallOptimize

SpecSixBySix == InitSixBySix /\ [][NextSixBySix]_vars

(***************************************************************************)
(* Lower case and substring tests.  TLC cannot look inside a string, so    *)
(* the two tables below state, for the words the model uses, what          *)
(* str.lower() returns and which of the keywords of the script (the        *)
(* categories of CONTENT_BACKGROUNDS, bg_keywords, action_words) occur     *)
(* inside the lower-case word.  No keyword holds white space, so a keyword *)
(* occurs in a string exactly when it occurs in one of its words.          *)
(***************************************************************************)
\* word.lower()
lower(w) ==
    CASE w = "Agenda" -> "agenda"
      [] w = "Business" -> "business"
      [] w = "Data" -> "data"
      [] w = "Features" -> "features"
      [] w = "Happy" -> "happy"
      [] w = "Improve" -> "improve"
      [] w = "May" -> "may"
      [] w = "Meeting" -> "meeting"
      [] w = "Overview" -> "overview"
      [] w = "Plans" -> "plans"
      [] w = "Q3" -> "q3"
      [] w = "Revenue" -> "revenue"
      [] w = "Review" -> "review"
      [] w = "Summary" -> "summary"
      [] w = "Team" -> "team"
      [] w = "We" -> "we"
      [] OTHER -> w

\* the keywords k with `k in w`, for a word w
Occurring(w) ==
    CASE w = "app" -> {"app"}
      [] w = "business" -> {"business"}
      [] w = "data" -> {"data"}
      [] w = "deliver" -> {"deliver"}
      [] w = "features" -> {"features"}
      [] w = "happy" -> {"app"}
      [] w = "improve" -> {"improve"}
      [] w = "meeting" -> {"meeting"}
      [] w = "overview" -> {"overview"}
      [] w = "summary" -> {"summary"}
      [] OTHER -> {}

\* s.lower()
Lower(s) == [i \in DOMAIN s |-> lower(s[i])]

\* `k in s` for a keyword k
In(k, s) == \E i \in DOMAIN s : k \in Occurring(s[i])

\* " ".join(content) for a list of strings
RECURSIVE JoinLines(_)
JoinLines(content) ==
    IF content = <<>> THEN <<>>
    ELSE IF Len(content) = 1 THEN content[1]
    ELSE content[1] \o <<Space>> \o JoinLines(Tail(content))

(***************************************************************************)
(* Assets, lines 29-83.  A path is the pair of its directory and its file  *)
(* name (str(BACKGROUNDS_PATH / name)); None is the empty tuple.           *)
(***************************************************************************)
None == <<>>
BackgroundPath(bg) == <<"backgrounds", bg>>
LogoPath(logo) == <<"logos", logo>>

BACKGROUND_IMAGES == <<"bg1.jpg", "bg2.png", "bg3.png", "bg4.jpg", "bg5.jpg">>
LOGO_IMAGES == <<"fm_logo_1.png", "fm_logo_2.png", "fm_logo_3.png">>

\* dict.items() of the table, in insertion order
Category(c, bgs) == [category |-> c, backgrounds |-> bgs]
CONTENT_BACKGROUNDS ==
    << Category("business", <<"bg4.jpg", "bg5.jpg">>),
       Category("professional", <<"bg4.jpg", "bg5.jpg">>),
       Category("corporate", <<"bg4.jpg", "bg5.jpg">>),
       Category("meeting", <<"bg5.jpg">>),
       Category("presentation", <<"bg4.jpg", "bg5.jpg">>),
       Category("technology", <<"bg2.png", "bg3.png">>),
       Category("digital", <<"bg2.png", "bg3.png">>),
       Category("platform", <<"bg2.png", "bg3.png">>),
       Category("software", <<"bg2.png", "bg3.png">>),
       Category("app", <<"bg2.png", "bg3.png">>),
       Category("online", <<"bg2.png", "bg3.png">>),
       Category("analytics", <<"bg3.png">>),
       Category("data", <<"bg3.png">>),
       Category("metrics", <<"bg3.png">>),
       Category("performance", <<"bg3.png">>),
       Category("reporting", <<"bg3.png">>),
       Category("marketing", <<"bg1.jpg">>),
       Category("growth", <<"bg1.jpg">>),
       Category("campaign", <<"bg1.jpg">>),
       Category("audience", <<"bg1.jpg">>),
       Category("conversion", <<"bg1.jpg">>),
       Category("overview", <<"bg1.jpg", "bg4.jpg">>),
       Category("introduction", <<"bg1.jpg", "bg4.jpg">>),
       Category("summary", <<"bg4.jpg", "bg5.jpg">>),
       Category("conclusion", <<"bg4.jpg", "bg5.jpg">>),
       Category("features", <<"bg2.png", "bg3.png">>),
       Category("benefits", <<"bg1.jpg", "bg4.jpg">>),
       Category("solutions", <<"bg2.png", "bg4.jpg">>) >>

Elements(s) == {s[i] : i \in DOMAIN s}

(***************************************************************************)
(* select_background_by_content, lines 86-106.  random.choice is a choice  *)
(* the caller cannot predict: the operators give the set of all the values *)
(* the call can return, fs being the files that exist.                     *)
(***************************************************************************)
\* the first existing asset only
Fallback_First(fs) ==
    LET available_bgs == SelectSeq(BACKGROUND_IMAGES,
                                   LAMBDA bg : BackgroundPath(bg) \in fs)
    IN  IF available_bgs # <<>> THEN {BackgroundPath(available_bgs[1])}
        ELSE {None}

\* lines 100-106
Fallback(fs) ==
    LET available_bgs == SelectSeq(BACKGROUND_IMAGES,
                                   LAMBDA bg : BackgroundPath(bg) \in fs)
    IN  IF available_bgs # <<>>
        THEN {BackgroundPath(bg) : bg \in Elements(available_bgs)}
        ELSE {None}

\* lines 93-98, the loop from the i-th category on
RECURSIVE SelectFrom(_, _, _)
SelectFrom(i, full_text, fs) ==
    IF i > Len(CONTENT_BACKGROUNDS) THEN Fallback(fs)
    ELSE IF In(CONTENT_BACKGROUNDS[i].category, full_text)
    THEN UNION {IF BackgroundPath(selected_bg) \in fs
                THEN {BackgroundPath(selected_bg)}
                ELSE SelectFrom(i + 1, full_text, fs) :
                    selected_bg \in Elements(CONTENT_BACKGROUNDS[i].backgrounds)}
    ELSE SelectFrom(i + 1, full_text, fs)

select_background_by_content(title, content, fs) ==
    LET title_lower == Lower(title)
        content_text == IF content # <<>> THEN Lower(JoinLines(content))
                        ELSE <<>>
        full_text == title_lower \o <<Space>> \o content_text
    IN  SelectFrom(1, full_text, fs)

(***************************************************************************)
(* Calls of select_background_by_content: sample titles, with and without  *)
(* bullet lines, every set of existing background files.                   *)
(***************************************************************************)
SampleTitles ==
    { <<"Agenda">>, <<"Team", Space, "update">>,
      <<"Business", Space, "Review">>, <<"Meeting">>,
      <<"Data", Space, "Overview">>, <<"Happy", Space, "Team">>,
      <<"Summary">>, <<"Features">> }

SampleContents ==
    { <<>>, <<SampleLines[1]>>, <<SampleLines[2], SampleLines[5]>> }

BackgroundFiles == {BackgroundPath(bg) : bg \in Elements(BACKGROUND_IMAGES)}

InitBackground ==
    /\ RendererIdle
    /\ pc = "call select"
    /\ args \in [title : SampleTitles, content : SampleContents]
    /\ files \in SUBSET BackgroundFiles
    /\ ret = NotCalled
    /\ prs = NoPresentation /\ consumed = 0 /\ exit_code = -1 /\ stderr = <<>>
    /\ argv = <<>> /\ json_data = <<>> /\ stdout = <<>> /\ uncaught = ""

CallSelectBackground ==
    /\ pc = "call select"
    /\ \E r \in select_background_by_content(args.title, args.content, files) :
          ret' = Ok(r)
    /\ pc' = "selected"
    /\ UNCHANGED <<argv, stderr, json_data, stdout, uncaught, files, args, prs,
                   consumed, exit_code>>
    /\ UNCHANGED rendererVars

NextBackground == CallSelectBackground

SpecBackground == InitBackground /\ [][NextBackground]_vars

(***************************************************************************)
(* COLOR_SCHEMES, lines 376-390.  A color is its RGB triple.               *)
(***************************************************************************)
RGBColor(r, g, b) == <<r, g, b>>

COLOR_SCHEMES ==
    [feedmob |->
        [primary |-> RGBColor(5, 141, 199),
         secondary |-> RGBColor(21, 129, 88),
         accent1 |-> RGBColor(80, 180, 50),
         accent2 |-> RGBColor(237, 86, 27),
         accent3 |-> RGBColor(237, 239, 0),
         accent4 |-> RGBColor(36, 203, 229),
         accent5 |-> RGBColor(100, 229, 114),
         text |-> RGBColor(0, 0, 0),
         background |-> RGBColor(255, 255, 255),
         background_alt |-> RGBColor(243, 243, 243),
         text_light |-> RGBColor(21, 129, 88)]]

\* COLOR_SCHEMES.get(color_scheme, COLOR_SCHEMES['feedmob'])
Colors(color_scheme) ==
    IF color_scheme \in DOMAIN COLOR_SCHEMES THEN COLOR_SCHEMES[color_scheme]
    ELSE COLOR_SCHEMES["feedmob"]

(***************************************************************************)
(* enhance_content_hierarchy, lines 224-261.                               *)
(***************************************************************************)
action_words ==
    <<"improve", "increase", "achieve", "deliver", "enhance", "optimize">>

\* metrics_pattern.search(word): \d+%|\$\d+|\d+\.?\d*[KMB]? finds a match
\* exactly in the words that hold a digit
MetricsInWord(w) == w \in {"25%", "Q3"}
metrics_pattern_search(s) == \E i \in DOMAIN s : MetricsInWord(s[i])

\* lines 229-259: the dict appended for the item of index i (from 0)
Item(i, txt, colors) ==
    LET first == [emphasis_level |-> IF i = 0 THEN "high" ELSE "normal",
                  text_color |-> IF i = 0 THEN colors.primary ELSE colors.text,
                  is_bold |-> (i = 0)]
        last ==
            IF \E k \in DOMAIN action_words : In(action_words[k], Lower(txt))
            THEN [emphasis_level |-> "medium", text_color |-> colors.accent1,
                  is_bold |-> TRUE]
            ELSE IF metrics_pattern_search(txt)
            THEN [emphasis_level |-> "medium", text_color |-> colors.accent2,
                  is_bold |-> TRUE]
            ELSE first
    IN  [text |-> txt, color |-> last.text_color, bold |-> last.is_bold,
         emphasis |-> last.emphasis_level]

enhance_content_hierarchy(content, color_scheme) ==
    [i \in DOMAIN content |-> Item(i - 1, content[i], Colors(color_scheme))]

SchemeNames == {"feedmob", "modern"}

InitHierarchy ==
    /\ RendererIdle
    /\ pc = "call enhance"
    /\ args \in [content : BulletLists, color_scheme : SchemeNames]
    /\ ret = NotCalled
    /\ files = {} /\ prs = NoPresentation /\ consumed = 0 /\ exit_code = -1 /\ stderr = <<>>
    /\ argv = <<>> /\ json_data = <<>> /\ stdout = <<>> /\ uncaught = ""

CallEnhance ==
    /\ pc = "call enhance"
    /\ ret' = Ok(enhance_content_hierarchy(args.content, args.color_scheme))
    /\ pc' = "enhanced"
    /\ UNCHANGED <<argv, stderr, json_data, stdout, uncaught, files, args, prs,
                   consumed, exit_code>>
    /\ UNCHANGED rendererVars

NextHierarchy == CallEnhance

SpecHierarchy == InitHierarchy /\ [][NextHierarchy]_vars

(***************************************************************************)
(* Text frames of python-pptx.  A text frame is the sequence of its        *)
(* paragraphs; a paragraph is its text and the font of its run.  A         *)
(* paragraph whose text is empty has no run, so the loops over the runs    *)
(* leave it alone.  A font is a function from the attributes that were set *)
(* to their values; an attribute never set is not in its DOMAIN.           *)
(***************************************************************************)
NoFont == [a \in {} |-> 0]
Para(s) == [text |-> s, font |-> NoFont]

\* text_frame.text = s
SetText(s) == <<Para(s)>>

\* assign the attributes of upd to a font
Patch(font, upd) ==
    [a \in DOMAIN font \cup DOMAIN upd |->
        IF a \in DOMAIN upd THEN upd[a] ELSE font[a]]

\* for run in paragraph.runs: assign the attributes of upd
StyleParagraph(p, upd) ==
    IF p.text = <<>> THEN p ELSE [p EXCEPT !.font = Patch(@, upd)]

\* for paragraph in text_frame.paragraphs: for run in paragraph.runs: ...
StyleRuns(tf, upd) == [i \in DOMAIN tf |-> StyleParagraph(tf[i], upd)]

\* lines 405-418
set_font_style(tf, font_name, font_size, color, bold, italic) ==
    StyleRuns(tf, [name |-> font_name, size |-> font_size, bold |-> bold,
                   italic |-> italic, color |-> color])

\* lines 297-314: what apply_design_principles_to_text assigns to a run
DesignPatch(content_type, colors) ==
    CASE content_type = "title" ->
            [size |-> 44, bold |-> TRUE, color |-> colors.primary,
             name |-> "Arial"]
      [] content_type = "subtitle" ->
            [size |-> 28, color |-> colors.text_light, name |-> "Arial"]
      [] content_type = "body" ->
            [size |-> 20, color |-> colors.text, name |-> "Arial"]
      [] content_type = "emphasis" ->
            [size |-> 22, bold |-> TRUE, color |-> colors.accent1,
             name |-> "Arial"]
      [] OTHER -> [name |-> "Arial"]

\* lines 289-314
apply_design_principles_to_text(tf, content_type, color_scheme) ==
    StyleRuns(tf, DesignPatch(content_type, Colors(color_scheme)))

(***************************************************************************)
(* Slides.  A slide is a record of what the builder put on it: the name of *)
(* the builder, the text frames of title, subtitle and body, the           *)
(* background picture, the other pictures and the logo.  Bars, overlays    *)
(* and fills are left out.  Files that exist are taken to be images that   *)
(* add_picture accepts.                                                    *)
(***************************************************************************)
NewSlide(builder) ==
    [builder |-> builder, title |-> <<>>, subtitle |-> <<>>, body |-> <<>>,
     background |-> None, pictures |-> <<>>, logo |-> None]

\* the new slide takes the place of the slides
AddSlide_Replace(p, slide) == [p EXCEPT !.slides = <<slide>>]

\* prs.slides.add_slide(layout), once the builder has filled the slide
AddSlide(p, slide) == [p EXCEPT !.slides = Append(@, slide)]

\* lines 393-402: prs._color_scheme = colors
apply_color_scheme(p, scheme_name) == [p EXCEPT !.scheme = TRUE]

\* lines 619-624 (and 978-983, 1013-1018)
EmphasisSize(emphasis) ==
    IF emphasis = "high" THEN 22 ELSE IF emphasis = "medium" THEN 21 ELSE 20

\* lines 598-624: the paragraphs of the content placeholder
HierarchyParagraphs(enhanced_content) ==
    IF enhanced_content = <<>> THEN SetText(<<>>)
    ELSE [i \in DOMAIN enhanced_content |->
            LET item == enhanced_content[i]
            IN  IF i = 1
                THEN StyleParagraph(Para(item.text),
                        [bold |-> item.bold, color |-> item.color])
                ELSE StyleParagraph(Para(item.text),
                        [bold |-> item.bold, color |-> item.color,
                         size |-> EmphasisSize(item.emphasis)])]

\* lines 576-630; p is the presentation, the result is the new slide
create_content_slide(p, title, content, color_scheme) ==
    LET optimized_content == optimize_content_for_6x6(content)
        enhanced_content ==
            enhance_content_hierarchy(optimized_content, color_scheme)
        title_tf == SetText(title)
        tf == HierarchyParagraphs(enhanced_content)
    IN  [NewSlide("create_content_slide") EXCEPT
            !.title = IF p.scheme
                      THEN apply_design_principles_to_text(title_tf, "title",
                                                           color_scheme)
                      ELSE title_tf,
            !.body = IF p.scheme
                     THEN apply_design_principles_to_text(tf, "body",
                                                          color_scheme)
                     ELSE tf]

(***************************************************************************)
(* Calls of create_content_slide, on a fresh presentation and on one that  *)
(* apply_color_scheme has prepared.                                        *)
(***************************************************************************)
InitContentSlide ==
    /\ RendererIdle
    /\ pc = "call create_content_slide"
    /\ args \in [title : {<<"Agenda">>, <<"Data", Space, "Overview">>},
                 content : BulletLists, color_scheme : {"feedmob"}]
    /\ prs \in {NoPresentation, apply_color_scheme(NoPresentation, "feedmob")}
    /\ ret = NotCalled
    /\ files = {} /\ consumed = 0 /\ exit_code = -1 /\ stderr = <<>>
    /\ argv = <<>> /\ json_data = <<>> /\ stdout = <<>> /\ uncaught = ""

CallContentSlide ==
    /\ pc = "call create_content_slide"
    /\ LET slide == create_content_slide(prs, args.title, args.content,
                                         args.color_scheme)
       IN  /\ ret' = Ok(slide)
           /\ prs' = AddSlide(prs, slide)
    /\ pc' = "slide created"
    /\ UNCHANGED <<argv, stderr, json_data, stdout, uncaught, files, args,
                   consumed, exit_code>>
    /\ UNCHANGED rendererVars

NextContentSlide == CallContentSlide

SpecContentSlide == InitContentSlide /\ [][NextContentSlide]_vars

(***************************************************************************)
(* Logos and the eligibility rules, lines 109-201.                         *)
(***************************************************************************)
\* any logo of the list is drawn, whether its file exists or not
select_logo_by_content_Unchecked(fs) ==
    {LogoPath(logo) : logo \in Elements(LOGO_IMAGES)}

\* lines 109-116: the values the call can return
select_logo_by_content(fs) ==
    LET available_logos == SelectSeq(LOGO_IMAGES,
                                     LAMBDA logo : LogoPath(logo) \in fs)
    IN  IF available_logos # <<>>
        THEN {LogoPath(logo) : logo \in Elements(available_logos)}
        ELSE {None}

bg_keywords ==
    <<"overview", "introduction", "summary", "conclusion", "features",
      "benefits">>

\* lines 119-135
should_add_background(slide_type, title, has_existing_background) ==
    IF has_existing_background THEN FALSE
    ELSE IF slide_type \in {"metrics_dashboard", "comparison"} THEN FALSE
    ELSE IF slide_type \in {"title", "section_header", "visual_content"}
    THEN TRUE
    ELSE \E k \in DOMAIN bg_keywords : In(bg_keywords[k], Lower(title))

\* the background is not looked at
should_add_logo_AnyBackground(slide_type, title, has_background) ==
    IF slide_type \in {"title", "section_header", "metrics_dashboard"}
    THEN FALSE
    ELSE slide_type \in {"content", "comparison", "visual_content",
                         "two_column"}

\* lines 138-149
should_add_logo(slide_type, title, has_background) ==
    IF has_background THEN FALSE
    ELSE IF slide_type \in {"title", "section_header", "metrics_dashboard"}
    THEN FALSE
    ELSE slide_type \in {"content", "comparison", "visual_content",
                         "two_column"}

\* lines 152-201: the slide with the logo, when the file exists
add_logo_to_slide(slide, logo_path, fs) ==
    IF logo_path \notin fs THEN slide ELSE [slide EXCEPT !.logo = logo_path]

(***************************************************************************)
(* Pictures and text boxes.  print(...) is modelled by the line printed:   *)
(* its fixed text and the value formatted into it.                         *)
(***************************************************************************)
Line(msg, arg) == [msg |-> msg, arg |-> arg]

\* `if background_image and Path(background_image).exists()`
Usable(path, fs) == path # None /\ path \in fs

\* lines 474-505 and 1132-1148: the slide afterwards and the lines printed
AddImage(slide, image_path, fs) ==
    IF image_path \notin fs
    THEN [slide |-> slide,
          out |-> <<Line("Warning: Image file not found: ", image_path)>>]
    ELSE [slide |-> [slide EXCEPT !.pictures = Append(@, image_path)],
          out |-> <<>>]

\* the background picture of a builder, lines 555-556, 642-643, 685-686,
\* 780-781, 813-814, 924-925
WithBackground(slide, background_image, fs) ==
    IF Usable(background_image, fs)
    THEN [slide EXCEPT !.background = background_image]
    ELSE slide

\* text_frame.text = content[0] if content else "", then one paragraph for
\* each of content[1:]
ListParagraphs(content) ==
    IF content = <<>> THEN SetText(<<>>)
    ELSE [i \in DOMAIN content |-> Para(content[i])]

White == RGBColor(255, 255, 255)

(***************************************************************************)
(* The builders of title slides and section headers.                       *)
(***************************************************************************)
\* lines 546-573
create_title_slide(p, title, subtitle, color_scheme, background_image, fs) ==
    LET styled(tf, kind) ==
            IF p.scheme
            THEN apply_design_principles_to_text(tf, kind, color_scheme)
            ELSE tf
    IN  [WithBackground(NewSlide("create_title_slide"), background_image, fs)
            EXCEPT !.title = styled(SetText(title), "title"),
                   !.subtitle = IF subtitle # None
                                THEN styled(SetText(subtitle), "subtitle")
                                ELSE <<>>]

\* lines 765-801
create_professional_title_slide(p, title, subtitle, color_scheme, background_image, fs) ==
    LET colors == Colors(color_scheme)
    IN  [WithBackground(NewSlide("create_professional_title_slide"),
                        background_image, fs)
            EXCEPT !.title = set_font_style(SetText(title), "Arial", 54,
                                            colors.background, TRUE, FALSE),
                   !.subtitle =
                        IF subtitle # None
                        THEN set_font_style(SetText(subtitle), "Arial", 24,
                                            colors.background, FALSE, FALSE)
                        ELSE <<>>]

\* lines 804-850
create_feedmob_title_slide(p, title, subtitle, background_image, fs) ==
    [WithBackground(NewSlide("create_feedmob_title_slide"),
                    background_image, fs)
        EXCEPT !.title = set_font_style(SetText(title), "Arial", 52, White,
                                        TRUE, FALSE),
               !.subtitle =
                    IF subtitle # None
                    THEN set_font_style(SetText(subtitle), "Arial", 28, White,
                                        FALSE, FALSE)
                    ELSE <<>>]

\* lines 676-710
create_section_header_slide(p, title, subtitle, color_scheme, background_image, fs) ==
    LET colors == Colors(color_scheme)
    IN  [WithBackground(NewSlide("create_section_header_slide"),
                        background_image, fs)
            EXCEPT !.title = set_font_style(SetText(title), "Arial", 48,
                                            colors.background, TRUE, FALSE),
                   !.subtitle =
                        IF subtitle # None
                        THEN set_font_style(SetText(subtitle), "Arial", 24,
                                            colors.background, FALSE, FALSE)
                        ELSE <<>>]

(***************************************************************************)
(* The builders of slides with bullet lists.  The body of a slide with     *)
(* several text boxes holds their paragraphs in the order of creation.     *)
(***************************************************************************)
\* lines 633-673
create_content_slide_with_background(p, title, content, color_scheme, background_image, fs) ==
    LET colors == Colors(color_scheme)
    IN  [WithBackground(NewSlide("create_content_slide_with_background"),
                        background_image, fs)
            EXCEPT !.title = set_font_style(SetText(title), "Arial", 36,
                                            White, TRUE, FALSE),
                   !.body = set_font_style(ListParagraphs(content), "Arial",
                                           18, colors.text, FALSE, FALSE)]

\* the bullet sign of line 903 (U+2022)
BulletSign == "(bullet)"

\* lines 893-907: the paragraphs of content[1:] get the bullet sign and the
\* accent color
BulletParagraphs(content, colors) ==
    IF content = <<>> THEN SetText(<<>>)
    ELSE [i \in DOMAIN content |->
            IF i = 1 THEN Para(content[i])
            ELSE StyleParagraph(Para(<<BulletSign, Space>> \o content[i]),
                                [color |-> colors.accent1])]

\* lines 853-911
create_feedmob_content_slide(p, title, content, image_path, fs) ==
    LET colors == COLOR_SCHEMES["feedmob"]
        slide == NewSlide("create_feedmob_content_slide")
    IN  [(IF Usable(image_path, fs) THEN AddImage(slide, image_path, fs).slide
          ELSE slide)
            EXCEPT !.title = set_font_style(SetText(title), "Arial", 36,
                                            colors.primary, TRUE, FALSE),
                   !.body = set_font_style(BulletParagraphs(content, colors),
                                           "Arial", 18, colors.text, FALSE,
                                           FALSE)]

\* lines 964-988 and 999-1023: every item styled by its emphasis
VisualParagraphs(enhanced_content) ==
    IF enhanced_content = <<>> THEN SetText(<<>>)
    ELSE [i \in DOMAIN enhanced_content |->
            LET item == enhanced_content[i]
            IN  StyleParagraph(Para(item.text),
                    [bold |-> item.bold, color |-> item.color,
                     size |-> EmphasisSize(item.emphasis),
                     name |-> "Arial"])]

\* lines 914-1028
create_visual_content_slide(p, title, content_points, image_path, color_scheme, background_image, fs) ==
    LET slide == WithBackground(NewSlide("create_visual_content_slide"),
                                background_image, fs)
        optimized_content == optimize_content_for_6x6(content_points)
        enhanced_content ==
            enhance_content_hierarchy(optimized_content, color_scheme)
    IN  [(IF Usable(image_path, fs) THEN AddImage(slide, image_path, fs).slide
          ELSE slide)
            EXCEPT !.title = apply_design_principles_to_text(
                                 SetText(title), "title", color_scheme),
                   !.body = apply_design_principles_to_text(
                                VisualParagraphs(enhanced_content), "body",
                                color_scheme)]

\* lines 1058-1101: the value box and the label box of the i-th metric
\* (from 0); a metric is a dict that may lack 'value' or 'label'
MetricParagraphs(i, metric, colors) ==
    LET metric_colors == <<colors.primary, colors.accent1, colors.accent2,
                           colors.accent3>>
        value_text == IF "value" \in DOMAIN metric THEN metric.value ELSE <<>>
        label_text == IF "label" \in DOMAIN metric THEN metric.label ELSE <<>>
    IN  StyleRuns(SetText(value_text),
                  [size |-> 36, bold |-> TRUE,
                   color |-> metric_colors[(i % Len(metric_colors)) + 1],
                   name |-> "Arial"])
        \o StyleRuns(SetText(label_text),
                     [size |-> 16, color |-> colors.text_light,
                      name |-> "Arial"])

RECURSIVE MetricBoxes(_, _, _)
MetricBoxes(i, metrics, colors) ==
    IF i >= Len(metrics) THEN <<>>
    ELSE MetricParagraphs(i, metrics[i + 1], colors)
         \o MetricBoxes(i + 1, metrics, colors)

\* lines 1031-1103
create_metrics_dashboard_slide(p, title, metrics, color_scheme) ==
    [NewSlide("create_metrics_dashboard_slide")
        EXCEPT !.title = apply_design_principles_to_text(
                             SetText(title), "title", color_scheme),
               !.body = MetricBoxes(0, Slice(metrics, 4),
                                    Colors(color_scheme))]

\* lines 713-762
create_comparison_slide(p, title, left_title, right_title, left_points, right_points, color_scheme) ==
    LET colors == Colors(color_scheme)
        heading(s) == set_font_style(SetText(s), "Arial", 22, colors.primary,
                                     TRUE, FALSE)
        points(l) == set_font_style(ListParagraphs(l), "Arial", 16,
                                    colors.text, FALSE, FALSE)
    IN  [NewSlide("create_comparison_slide")
            EXCEPT !.title = set_font_style(SetText(title), "Arial", 36,
                                            colors.primary, TRUE, FALSE),
                   !.body = heading(left_title) \o points(left_points)
                            \o heading(right_title) \o points(right_points)]

\* lines 508-543
create_two_column_slide(p, title, left_content, right_content, color_scheme) ==
    LET colors == Colors(color_scheme)
        column(l) == set_font_style(ListParagraphs(l), "Arial", 14,
                                    colors.text, FALSE, FALSE)
    IN  [NewSlide("create_two_column_slide")
            EXCEPT !.title = SetText(title),
                   !.body = column(left_content) \o column(right_content)]

\* lines 1106-1110
create_blank_slide(p) == NewSlide("create_blank_slide")

\* lines 1113-1129: the size is set on the paragraph
add_text_to_slide(slide, txt, font_size) ==
    [slide EXCEPT !.body = @ \o <<[Para(txt) EXCEPT
                                      !.font = [size |-> font_size]]>>]

(***************************************************************************)
(* create_presentation_from_json, lines 1151-1319.  json_data and every    *)
(* slide spec are dicts: functions whose DOMAIN is the set of the keys     *)
(* that are present.  Bullet lists are given as lists (the script also     *)
(* takes a single string and wraps it, lines 1190 and 1220).  One action   *)
(* is one turn of the loop, for one type tag.                              *)
(***************************************************************************)
\* d.get(k, default)
Get(d, k, default) == IF k \in DOMAIN d THEN d[k] ELSE default

slides_data == Get(json_data, "slides", <<>>)
slide_data == slides_data[consumed + 1]
color_scheme == Get(json_data, "color_scheme", "feedmob")
auto_backgrounds == Get(json_data, "auto_backgrounds", TRUE)
auto_logos == Get(json_data, "auto_logos", TRUE)
slide_color_scheme == Get(slide_data, "color_scheme", color_scheme)

\* lines 1153-1163
BeginFromJson ==
    /\ pc = "create_presentation_from_json"
    /\ prs' = apply_color_scheme(NoPresentation, color_scheme)
    /\ consumed' = 0
    /\ pc' = "for slide_data in slides_data"
    /\ UNCHANGED <<argv, stderr, json_data, stdout, uncaught, files, args, ret,
                   exit_code>>
    /\ UNCHANGED rendererVars

\* the loop is at a spec of the given type
Taking(slide_type) ==
    /\ pc = "for slide_data in slides_data"
    /\ consumed < Len(slides_data)
    /\ Get(slide_data, "type", "content") = slide_type

\* the turn ends: the slide is in the document, the lines are printed
Emit(slide, out) ==
    /\ prs' = AddSlide(prs, slide)
    /\ stdout' = stdout \o out
    /\ consumed' = consumed + 1
    /\ UNCHANGED <<pc, argv, stderr, json_data, uncaught, files, args, ret, exit_code>>
    /\ UNCHANGED rendererVars

\* the setting and the rule are not looked at
WithLogo_Always(slide, wanted, fs) ==
    {IF logo_path # None THEN add_logo_to_slide(slide, logo_path, fs)
     ELSE slide : logo_path \in select_logo_by_content(fs)}

\* `if auto_logos and should_add_logo(...)`, then lines 1202-1204 (and
\* 1247-1249, 1273-1275, 1285-1287): the slides that can result
WithLogo(slide, wanted, fs) ==
    IF wanted
    THEN {IF logo_path # None THEN add_logo_to_slide(slide, logo_path, fs)
          ELSE slide : logo_path \in select_logo_by_content(fs)}
    ELSE {slide}

\* lines 1169-1184
TitleSpec ==
    /\ Taking("title")
    /\ LET title == Get(slide_data, "title", <<>>)
           subtitle == Get(slide_data, "subtitle", None)
           given == Get(slide_data, "background_image", None)
           use_professional == Get(slide_data, "professional_style", FALSE)
       IN  \E background_image \in
                   (IF given = None /\ auto_backgrounds
                    THEN select_background_by_content(title, <<>>, files)
                    ELSE {given}) :
               Emit(IF slide_color_scheme = "feedmob"
                    THEN create_feedmob_title_slide(prs, title, subtitle,
                                                    background_image, files)
                    ELSE IF use_professional
                    THEN create_professional_title_slide(prs, title, subtitle,
                             slide_color_scheme, background_image, files)
                    ELSE create_title_slide(prs, title, subtitle,
                             slide_color_scheme, background_image, files),
                    <<>>)

\* lines 1186-1204
VisualContentSpec ==
    /\ Taking("visual_content")
    /\ LET title == Get(slide_data, "title", <<>>)
           content_points == Get(slide_data, "content", <<>>)
           image_path == Get(slide_data, "image", None)
       IN  \E background_image \in
                   (IF auto_backgrounds
                       /\ should_add_background("visual_content", title, FALSE)
                    THEN select_background_by_content(title, content_points,
                                                      files)
                    ELSE {None}) :
               \E slide \in WithLogo(
                       create_visual_content_slide(prs, title, content_points,
                           image_path, slide_color_scheme, background_image,
                           files),
                       auto_logos /\ should_add_logo("visual_content", title,
                                                     background_image # None),
                       files) :
                   Emit(slide, <<>>)

\* lines 1206-1215
MetricsDashboardSpec ==
    /\ Taking("metrics_dashboard")
    /\ LET title == Get(slide_data, "title", <<>>)
           metrics == Get(slide_data, "metrics", <<>>)
       IN  \E slide \in WithLogo(
                   create_metrics_dashboard_slide(prs, title, metrics,
                                                  slide_color_scheme),
                   auto_logos /\ should_add_logo("metrics_dashboard", title,
                                                 FALSE),
                   files) :
               Emit(slide, <<>>)

\* lines 1228-1243: the slide of a content spec and the lines printed
ContentSlide(title, content, background_image) ==
    IF slide_color_scheme = "feedmob" /\ "image" \in DOMAIN slide_data
    THEN [slide |-> create_feedmob_content_slide(prs, title, content,
                                                 slide_data.image, files),
          out |-> <<>>]
    ELSE IF background_image # None
    THEN [slide |-> create_content_slide_with_background(prs, title, content,
                        slide_color_scheme, background_image, files),
          out |-> <<>>]
    ELSE LET slide == create_content_slide(prs, title, content,
                                           slide_color_scheme)
         IN  IF "image" \in DOMAIN slide_data
             THEN AddImage(slide, slide_data.image, files)
             ELSE [slide |-> slide, out |-> <<>>]

\* lines 1217-1249
ContentSpec ==
    /\ Taking("content")
    /\ LET title == Get(slide_data, "title", <<>>)
           content == Get(slide_data, "content", <<>>)
       IN  \E background_image \in
                   (IF auto_backgrounds
                       /\ should_add_background("content", title, FALSE)
                    THEN select_background_by_content(title, content, files)
                    ELSE {None}) :
               LET built == ContentSlide(title, content, background_image)
               IN  \E slide \in WithLogo(
                           built.slide,
                           auto_logos /\ should_add_logo("content", title,
                                             background_image # None),
                           files) :
                       Emit(slide, built.out)

\* lines 1251-1260
SectionHeaderSpec ==
    /\ Taking("section_header")
    /\ LET title == Get(slide_data, "title", <<>>)
           subtitle == Get(slide_data, "subtitle", None)
       IN  \E background_image \in
                   (IF auto_backgrounds
                       /\ should_add_background("section_header", title, FALSE)
                    THEN select_background_by_content(title, <<>>, files)
                    ELSE {None}) :
               Emit(create_section_header_slide(prs, title, subtitle,
                        slide_color_scheme, background_image, files),
                    <<>>)

\* lines 1262-1275
ComparisonSpec ==
    /\ Taking("comparison")
    /\ LET title == Get(slide_data, "title", <<>>)
       IN  \E slide \in WithLogo(
                   create_comparison_slide(prs, title,
                       Get(slide_data, "left_title", <<>>),
                       Get(slide_data, "right_title", <<>>),
                       Get(slide_data, "left_points", <<>>),
                       Get(slide_data, "right_points", <<>>),
                       slide_color_scheme),
                   auto_logos /\ should_add_logo("comparison", title, FALSE),
                   files) :
               Emit(slide, <<>>)

\* lines 1277-1287
TwoColumnSpec ==
    /\ Taking("two_column")
    /\ LET title == Get(slide_data, "title", <<>>)
       IN  \E slide \in WithLogo(
                   create_two_column_slide(prs, title,
                       Get(slide_data, "left_content", <<>>),
                       Get(slide_data, "right_content", <<>>),
                       slide_color_scheme),
                   auto_logos /\ should_add_logo("two_column", title, FALSE),
                   files) :
               Emit(slide, <<>>)

\* lines 1289-1315
BlankSpec ==
    /\ Taking("blank")
    /\ LET blank == create_blank_slide(prs)
           texted == IF "text" \in DOMAIN slide_data
                     THEN add_text_to_slide(blank, slide_data.text,
                                            Get(slide_data, "font_size", 18))
                     ELSE blank
           imaged == IF "image" \in DOMAIN slide_data
                     THEN AddImage(texted, slide_data.image, files)
                     ELSE [slide |-> texted, out |-> <<>>]
       IN  \E slide \in WithLogo(
                   imaged.slide,
                   auto_logos /\ Get(slide_data, "image", None) = None,
                   files) :
               Emit(slide, imaged.out)

SlideTypes ==
    {"title", "visual_content", "metrics_dashboard", "content",
     "section_header", "comparison", "two_column", "blank"}

\* a dispatch whose chain ends in an else branch that adds a blank slide
OtherSpec_AddsSlide ==
    /\ pc = "for slide_data in slides_data"
    /\ consumed < Len(slides_data)
    /\ Get(slide_data, "type", "content") \notin SlideTypes
    /\ prs' = AddSlide(prs, NewSlide("create_blank_slide"))
    /\ consumed' = consumed + 1
    /\ UNCHANGED <<pc, argv, stderr, json_data, stdout, uncaught, files, args, ret,
                   exit_code>>
    /\ UNCHANGED rendererVars

\* no branch of the if/elif chain of lines 1169-1289 takes the spec
OtherSpec ==
    /\ pc = "for slide_data in slides_data"
    /\ consumed < Len(slides_data)
    /\ Get(slide_data, "type", "content") \notin SlideTypes
    /\ consumed' = consumed + 1
    /\ UNCHANGED <<pc, argv, stderr, json_data, stdout, uncaught, files, args, ret,
                   prs, exit_code>>
    /\ UNCHANGED rendererVars

\* the directories of the disk; open() for writing raises FileNotFoundError
\* when the directory of the path is not one of them
Directories == {"backgrounds", "logos", "images", "decks", "out"}
DirExists(path) == path[1] \in Directories

\* lines 1317-1319 (and 1362-1364)
Saved(output_path) ==
    /\ DirExists(output_path)
    /\ files' = files \cup {output_path}
    /\ stdout' = stdout \o
          <<Line("Successfully created presentation: ", output_path),
            Line("Total slides: ", Len(prs.slides))>>

SaveFromJson ==
    /\ pc = "for slide_data in slides_data"
    /\ consumed = Len(slides_data)
    /\ Saved(args.output_path)
    /\ pc' = "returned"
    /\ UNCHANGED <<argv, stderr, json_data, uncaught, args, ret, prs, consumed,
                   exit_code>>
    /\ UNCHANGED rendererVars

(***************************************************************************)
(* create_simple_presentation, lines 1322-1368.                            *)
(***************************************************************************)
\* lines 1326-1336
BeginSimple ==
    /\ pc = "create_simple_presentation"
    /\ \E background_image \in
               (IF args.auto_backgrounds
                THEN select_background_by_content(args.title, <<>>, files)
                ELSE {None}) :
           LET p == apply_color_scheme(NoPresentation, args.color_scheme)
           IN  prs' = AddSlide(p, create_title_slide(p, args.title, None,
                                   args.color_scheme, background_image, files))
    /\ consumed' = 0
    /\ pc' = "for slide_info in slides"
    /\ UNCHANGED <<argv, stderr, json_data, stdout, uncaught, files, args, ret,
                   exit_code>>
    /\ UNCHANGED rendererVars

\* lines 1340-1360
SimpleContent ==
    /\ pc = "for slide_info in slides"
    /\ consumed < Len(args.slides)
    /\ LET slide_info == args.slides[consumed + 1]
           slide_title == Get(slide_info, "title", <<>>)
           slide_content == Get(slide_info, "content", <<>>)
       IN  \E slide_background \in
                   (IF args.auto_backgrounds
                       /\ should_add_background("content", slide_title, FALSE)
                    THEN select_background_by_content(slide_title,
                                                      slide_content, files)
                    ELSE {None}) :
               \E slide \in WithLogo(
                       IF slide_background # None
                       THEN create_content_slide_with_background(prs,
                                slide_title, slide_content, args.color_scheme,
                                slide_background, files)
                       ELSE create_content_slide(prs, slide_title,
                                slide_content, args.color_scheme),
                       args.auto_logos
                           /\ should_add_logo("content", slide_title,
                                              slide_background # None),
                       files) :
                   Emit(slide, <<>>)

\* the check mark that opens the lines printed at 1366 and 1368 (U+2713)
CheckMark == "(check mark)"

\* lines 1362-1368
SaveSimple ==
    /\ pc = "for slide_info in slides"
    /\ consumed = Len(args.slides)
    /\ DirExists(args.output_path)
    /\ files' = files \cup {args.output_path}
    /\ stdout' = stdout \o
          <<Line("Successfully created presentation: ", args.output_path),
            Line("Total slides: ", Len(prs.slides))>>
          \o (IF args.auto_backgrounds
              THEN <<Line(CheckMark \o " Automatic background selection enabled",
                          None)>>
              ELSE <<>>)
          \o (IF args.auto_logos
              THEN <<Line(CheckMark \o " Automatic logo insertion enabled",
                          None)>>
              ELSE <<>>)
    /\ pc' = "returned"
    /\ UNCHANGED <<argv, stderr, json_data, uncaught, args, ret, prs, consumed,
                   exit_code>>
    /\ UNCHANGED rendererVars

\* prs.save(output_path), lines 1317 and 1362, when the directory of the
\* path does not exist: the exception leaves the function
SaveRaises ==
    /\ \/ pc = "for slide_data in slides_data" /\ consumed = Len(slides_data)
       \/ pc = "for slide_info in slides" /\ consumed = Len(args.slides)
    /\ ~DirExists(args.output_path)
    /\ ret' = Raise("FileNotFoundError", args.output_path)
    /\ pc' = "raised"
    /\ UNCHANGED <<argv, stderr, json_data, stdout, uncaught, files, args, prs,
                   consumed, exit_code>>
    /\ UNCHANGED rendererVars

(***************************************************************************)
(* The decks of the model.  The slide specs are samples that reach every   *)
(* branch of the loop; a deck takes MaxSpecs of them at most, at a fixed   *)
(* stride through the table.  Of the two image files named by the specs    *)
(* one exists in some states and the other in none.                        *)
(***************************************************************************)
MaxSpecs == 2

Photo == <<"images", "photo.png">>
Missing == <<"images", "missing.png">>
OutputPath == <<"out", "deck.pptx">>
NoSuchDirPath == <<"nowhere", "deck.pptx">>

SevenBullets == [i \in 1..7 |-> SampleLines[(i % Len(SampleLines)) + 1]]
TwoBullets == <<SampleLines[1], SampleLines[3]>>

SampleSpecs ==
    << [type |-> "title", title |-> <<"Business", Space, "Review">>,
        subtitle |-> <<"Q3", Space, "results">>],
       [type |-> "content", title |-> <<"Agenda">>, content |-> SevenBullets],
       [type |-> "title", title |-> <<"Agenda">>,
        background_image |-> Missing],
       [title |-> <<"Data", Space, "Overview">>, content |-> SevenBullets],
       [type |-> "title", title |-> <<"Agenda">>, background_image |-> Photo],
       [type |-> "content", title |-> <<"Agenda">>, content |-> SevenBullets,
        image |-> Photo],
       [type |-> "title", title |-> <<"Summary">>, color_scheme |-> "modern",
        professional_style |-> TRUE, subtitle |-> <<"Team", Space, "update">>],
       [type |-> "content", title |-> <<"Team", Space, "update">>,
        content |-> TwoBullets, image |-> Missing],
       [type |-> "title", title |-> <<"Meeting">>, color_scheme |-> "modern",
        subtitle |-> <<"Agenda">>, background_image |-> Missing],
       [type |-> "content", title |-> <<"Agenda">>, content |-> TwoBullets,
        color_scheme |-> "modern", image |-> Missing],
       [type |-> "visual_content", title |-> <<"Features">>,
        content |-> SevenBullets, image |-> Photo],
       [type |-> "content", title |-> <<"Summary">>, content |-> SevenBullets,
        color_scheme |-> "modern", image |-> Photo],
       [type |-> "visual_content", title |-> <<"Agenda">>,
        content |-> TwoBullets, image |-> Missing],
       [type |-> "metrics_dashboard", title |-> <<"Data">>,
        metrics |-> [i \in 1..5 |->
                        IF i = 2 THEN [label |-> <<"Team">>]
                        ELSE [value |-> <<"25%">>, label |-> <<"reach">>]]],
       [type |-> "section_header", title |-> <<"Summary">>,
        subtitle |-> <<"Q3", Space, "results">>],
       [type |-> "comparison", title |-> <<"Business", Space, "Review">>,
        left_title |-> <<"May">>, right_title |-> <<"Q3">>,
        left_points |-> TwoBullets, right_points |-> <<SampleLines[2]>>],
       [type |-> "two_column", title |-> <<"Agenda">>,
        left_content |-> TwoBullets, right_content |-> <<>>],
       [type |-> "blank"],
       [type |-> "blank", text |-> <<"Team", Space, "update">>,
        image |-> Missing],
       [type |-> "blank", image |-> Photo, font_size |-> 24],
       [type |-> "chart", title |-> <<"Data">>],
       [type |-> "content", title |-> <<"Features">>, content |-> <<>>],
       [type |-> "content", title |-> <<"Features">>, content |-> TwoBullets,
        image |-> Photo] >>

Strides == {1, 2, 3}

SpecLists ==
    {[i \in 1..n |->
        SampleSpecs[((k + (i - 1) * s) % Len(SampleSpecs)) + 1]] :
        n \in 0..MaxSpecs, k \in 1..Len(SampleSpecs), s \in Strides}
    \cup {<<SampleSpecs[21], SampleSpecs[4]>>}

\* a JSON document; the two settings are written only when they are false
Document(specs, backgrounds, logos) ==
    LET setting(key, on) == IF on THEN [k \in {} |-> TRUE]
                            ELSE [k \in {key} |-> FALSE]
        base == [k \in {"slides"} |-> specs]
    IN  Patch(Patch(base, setting("auto_backgrounds", backgrounds)),
              setting("auto_logos", logos))

JsonDocuments ==
    {Document(specs, b, l) : specs \in SpecLists, b \in BOOLEAN, l \in BOOLEAN}
    \cup {Patch(Document(specs, TRUE, TRUE),
                [k \in {"color_scheme"} |-> "modern"]) : specs \in SpecLists}

SimpleArguments ==
    [title : {<<"Agenda">>, <<"Business", Space, "Review">>},
     output_path : {OutputPath, NoSuchDirPath},
     slides : {[i \in 1..n |-> Patch([type |-> "content"], SampleSpecs[2 * k])]
                  : n \in 0..MaxSpecs, k \in 1..2}
              \cup {<<[title |-> <<"Summary">>, content |-> <<>>]>>},
     color_scheme : SchemeNames,
     auto_backgrounds : BOOLEAN,
     auto_logos : BOOLEAN]

AssetSets ==
    { {},
      {BackgroundPath("bg4.jpg"), LogoPath("fm_logo_1.png"), Photo},
      {BackgroundPath("bg1.jpg"), BackgroundPath("bg4.jpg"),
       LogoPath("fm_logo_1.png"), LogoPath("fm_logo_2.png")},
      {BackgroundPath("bg3.png"), BackgroundPath("bg5.jpg"),
       LogoPath("fm_logo_3.png"), Photo} }

InitDeck ==
    /\ RendererIdle
    /\ \/ /\ pc = "create_presentation_from_json"
          /\ json_data \in JsonDocuments
          /\ args \in [output_path : {OutputPath, NoSuchDirPath}]
       \/ /\ pc = "create_simple_presentation"
          /\ json_data = <<>>
          /\ args \in SimpleArguments
    /\ files \in AssetSets
    /\ prs = NoPresentation /\ consumed = 0
    /\ ret = NotCalled /\ exit_code = -1 /\ stderr = <<>>
    /\ argv = <<>> /\ stdout = <<>> /\ uncaught = ""

NextDeck ==
    \/ BeginFromJson \/ TitleSpec \/ VisualContentSpec \/ MetricsDashboardSpec
    \/ ContentSpec \/ SectionHeaderSpec \/ ComparisonSpec \/ TwoColumnSpec
    \/ BlankSpec \/ OtherSpec \/ SaveFromJson
    \/ BeginSimple \/ SimpleContent \/ SaveSimple \/ SaveRaises

SpecDeck == InitDeck /\ [][NextDeck]_vars

(***************************************************************************)
(* main(), lines 1371-1464.  argv is the command line as the function of   *)
(* the options given; text is what the file named by --json holds, a JSON  *)
(* document being the dict of its keys under JsonDict.  A raised exception *)
(* is kept in ret until an except clause of main takes it.                 *)
(***************************************************************************)
\* the options of lines 1375-1416 with their defaults
Defaults ==
    [output |-> None, title |-> None, json |-> None, subtitle |-> None,
     slides |-> None, color_scheme |-> "feedmob", background_image |-> None,
     no_auto_backgrounds |-> FALSE, no_auto_logos |-> FALSE]

\* choices of --color-scheme, line 1399
choices == {"professional", "modern", "corporate", "binance", "feedmob"}

\* the exit status of parser.error()
ArgparseStatus == 2

\* parser.parse_args(), line 1418: the namespace, or SystemExit with the
\* message parser.error() writes after the usage line
parse_args(a) ==
    IF "color_scheme" \in DOMAIN a /\ a.color_scheme \notin choices
    THEN Raise("SystemExit",
               Line("error: argument --color-scheme: invalid choice: ",
                    a.color_scheme))
    ELSE IF "output" \notin DOMAIN a
    THEN Raise("SystemExit",
               Line("error: the following arguments are required: ",
                    "--output/-o"))
    ELSE Ok(Patch(Defaults, a))

\* output_path.endswith('.pptx'), line 1422, on the file names of the model
\* (the test is case-sensitive)
endswith_pptx(name) ==
    name \in {"deck.pptx", "deck.ppt.pptx", "deck.PPTX.pptx", "deck.pptx.pptx",
              "deck.ppt.pptx.pptx", "deck.PPTX.pptx.pptx"}

\* output_path += '.pptx', line 1423, on the file names of the model
AddSuffix(name) ==
    CASE name = "deck" -> "deck.pptx"
      [] name = "deck.ppt" -> "deck.ppt.pptx"
      [] name = "deck.PPTX" -> "deck.PPTX.pptx"
      [] name = "deck.pptx" -> "deck.pptx.pptx"
      [] name = "deck.ppt.pptx" -> "deck.ppt.pptx.pptx"
      [] name = "deck.PPTX.pptx" -> "deck.PPTX.pptx.pptx"

\* the suffix is appended whatever the name ends with
EnsureSuffix_Always(path) == <<path[1], AddSuffix(path[2])>>

\* lines 1421-1423 on a path
EnsureSuffix(path) ==
    IF endswith_pptx(path[2]) THEN path
    ELSE <<path[1], AddSuffix(path[2])>>

\* lines 1421-1423
output_path == EnsureSuffix(parse_args(argv).val.output)

\* line 1418, when parse_args leaves through parser.error()
ArgumentError ==
    /\ pc = "main"
    /\ parse_args(argv).exc = "SystemExit"
    /\ stderr' = <<Line("usage: ", None), parse_args(argv).val>>
    /\ exit_code' = ArgparseStatus
    /\ pc' = "exited"
    /\ UNCHANGED <<argv, json_data, stdout, uncaught, files, args, ret, prs,
                   consumed>>
    /\ UNCHANGED rendererVars

\* the try body has begun with the arguments parsed
InTry == pc = "main" /\ parse_args(argv).exc = ""

\* lines 1430-1439
JsonMode ==
    /\ InTry
    /\ parse_args(argv).val.json # None
    /\ LET path == parse_args(argv).val.json
           loaded == json_loads(text)
           raise(e, a) == /\ ret' = Raise(e, a)
                          /\ pc' = "raised"
                          /\ UNCHANGED <<json_data, args>>
       IN  IF path \notin files THEN raise("FileNotFoundError", path)
           ELSE IF loaded.exc # "" THEN raise(loaded.exc, loaded.val)
           ELSE IF loaded.val.t # "dict" THEN raise("TypeError", loaded.val.t)
           ELSE /\ json_data' =
                      Patch(loaded.val.d,
                            [auto_backgrounds |->
                                 ~parse_args(argv).val.no_auto_backgrounds,
                             auto_logos |->
                                 ~parse_args(argv).val.no_auto_logos])
                /\ args' = [output_path |-> output_path]
                /\ pc' = "create_presentation_from_json"
                /\ UNCHANGED ret
    /\ UNCHANGED <<argv, stderr, stdout, uncaught, files, prs, consumed,
                   exit_code>>
    /\ UNCHANGED rendererVars

\* lines 1441-1449
TitleMode ==
    /\ InTry
    /\ parse_args(argv).val.json = None
    /\ parse_args(argv).val.title # None
    /\ LET a == parse_args(argv).val
       IN  args' = [title |-> a.title,
                    output_path |-> output_path,
                    slides |-> [i \in DOMAIN a.slides |->
                                   [title |-> a.slides[i], content |-> <<>>]],
                    color_scheme |-> a.color_scheme,
                    auto_backgrounds |-> ~a.no_auto_backgrounds,
                    auto_logos |-> ~a.no_auto_logos]
    /\ pc' = "create_simple_presentation"
    /\ UNCHANGED <<argv, stderr, json_data, stdout, uncaught, files, ret, prs,
                   consumed, exit_code>>
    /\ UNCHANGED rendererVars

\* lines 1451-1454
NeitherMode ==
    /\ InTry
    /\ parse_args(argv).val.json = None
    /\ parse_args(argv).val.title = None
    /\ stdout' = stdout \o
          <<Line("Error: Either --title or --json must be provided", None),
            Line("usage: ", None)>>
    /\ exit_code' = 1
    /\ pc' = "exited"
    /\ UNCHANGED <<argv, stderr, json_data, uncaught, files, args, ret, prs,
                   consumed>>
    /\ UNCHANGED rendererVars

\* the clause exits without a line
Except_NoLine(message) ==
    /\ exit_code' = 1
    /\ pc' = "exited"
    /\ UNCHANGED <<argv, stderr, json_data, stdout, uncaught, files, args, ret,
                   prs, consumed>>
    /\ UNCHANGED rendererVars

\* an except clause: one line and sys.exit(1)
Except(message) ==
    /\ stdout' = stdout \o <<Line(message, ret.val)>>
    /\ exit_code' = 1
    /\ pc' = "exited"
    /\ UNCHANGED <<argv, stderr, json_data, uncaught, files, args, ret, prs,
                   consumed>>
    /\ UNCHANGED rendererVars

\* lines 1456-1458
ExceptFileNotFoundError ==
    /\ pc = "raised"
    /\ ret.exc = "FileNotFoundError"
    /\ Except("Error: File not found: ")

\* lines 1459-1461
ExceptJSONDecodeError ==
    /\ pc = "raised"
    /\ ret.exc = "JSONDecodeError"
    /\ Except("Error: Invalid JSON format: ")

\* lines 1462-1464
ExceptException ==
    /\ pc = "raised"
    /\ ret.exc \notin {"FileNotFoundError", "JSONDecodeError"}
    /\ Except("Error creating presentation: ")

\* the function called at line 1439 or 1448 returned: main ends
ReturnFromMain ==
    /\ pc = "returned"
    /\ exit_code' = 0
    /\ pc' = "exited"
    /\ UNCHANGED <<argv, stderr, json_data, stdout, uncaught, files, args, ret,
                   prs, consumed>>
    /\ UNCHANGED rendererVars

(***************************************************************************)
(* The command lines of the model and the JSON files they name.            *)
(***************************************************************************)
JsonPath == <<"decks", "deck.json">>

\* an option left out, or given with one of the values
Option(name, values) ==
    {[k \in {} |-> None]} \cup {[k \in {name} |-> v] : v \in values}

AllCommandLines ==
    {Patch(o, Patch(j, Patch(t, Patch(s, Patch(c, Patch(b, l)))))) :
        o \in Option("output", {<<"out", "deck">>, <<"out", "deck.PPTX">>,
                                OutputPath, NoSuchDirPath}),
        j \in Option("json", {JsonPath}),
        t \in Option("title", {<<"Agenda">>}),
        s \in Option("slides", {<<<<"Summary">>, <<"Data", Space, "Overview">>>>}),
        c \in Option("color_scheme", {"modern", "neon"}),
        b \in Option("no_auto_backgrounds", {TRUE}),
        l \in Option("no_auto_logos", {TRUE})}

\* the options of the title slide are given in --title mode only
TitleSlideOptions ==
    {Patch(u, g) : u \in Option("subtitle", {<<"Q3", Space, "results">>}),
                   g \in Option("background_image", {Photo, Missing})}

CommandLines ==
    AllCommandLines
    \cup {Patch(a, t) : a \in {x \in AllCommandLines :
                                  /\ "output" \in DOMAIN x
                                  /\ "title" \in DOMAIN x
                                  /\ "json" \notin DOMAIN x
                                  /\ "slides" \notin DOMAIN x},
                        t \in TitleSlideOptions}

CliSpecLists ==
    {<<>>, <<SampleSpecs[1], SampleSpecs[4]>>, <<SampleSpecs[2]>>,
     <<SampleSpecs[21], SampleSpecs[6]>>,
     <<SampleSpecs[11], SampleSpecs[14], SampleSpecs[15]>>,
     <<SampleSpecs[16], SampleSpecs[17], SampleSpecs[18]>>}

\* what the JSON file holds
CliTexts ==
    {EmptyText, MalformedText, JsonText(JsonNull), JsonText(JsonList(<<>>))}
    \cup {JsonText(JsonDict(Document(specs, b, l))) :
             specs \in CliSpecLists, b \in BOOLEAN, l \in BOOLEAN}

InitCli ==
    /\ pc = "main"
    /\ argv \in CommandLines
    /\ \E assets \in AssetSets :
          \/ files = assets /\ text = <<>>
          \/ files = assets \cup {JsonPath} /\ text \in CliTexts
    /\ "json" \notin DOMAIN argv => text = <<>>
    /\ result = <<>> /\ records = <<>> /\ spend_by_url = NotCalled
    /\ data = <<>> /\ chart = NotCalled
    /\ json_data = <<>> /\ args = <<>> /\ ret = NotCalled
    /\ prs = NoPresentation /\ consumed = 0
    /\ exit_code = -1 /\ stderr = <<>> /\ stdout = <<>> /\ uncaught = ""

NextCli ==
    \/ ArgumentError \/ JsonMode \/ TitleMode \/ NeitherMode
    \/ ExceptFileNotFoundError \/ ExceptJSONDecodeError \/ ExceptException
    \/ ReturnFromMain
    \/ NextDeck

SpecCli == InitCli /\ [][NextCli]_vars

(***************************************************************************)
(* calculate_grid_position, lines 264-286, and the metric boxes of         *)
(* create_metrics_dashboard_slide, lines 1058-1064.  Lengths are in tenths *)
(* of an inch: every literal of the table is a multiple of 0.1 in.  A      *)
(* region is <<left, top, width, height>>.                                 *)
(***************************************************************************)
\* 10 inches total width, 7.5 inches total height (lines 269-270)
SlideWidth == 100
SlideHeight == 75

\* the lambda under 'metrics_box', line 279
metrics_box(col, row) == <<col * 30 - 25, row * 20 + 5, 28, 18>>

\* the tuples of the dict `positions`, lines 274-278
PositionNames ==
    {"title", "subtitle", "content_left", "content_right", "visual_content"}

positions(position_type) ==
    CASE position_type = "title" -> <<10, 5, 100, 12>>
      [] position_type = "subtitle" -> <<10, 18, 100, 8>>
      [] position_type = "content_left" -> <<10, 25, 55, 45>>
      [] position_type = "content_right" -> <<70, 25, 40, 45>>
      [] position_type = "visual_content" -> <<70, 25, 40, 45>>

\* line 286: positions.get(position_type, (1, 1, 8, 5)); slide_area is not
\* read
calculate_grid_position(position_type, slide_area) ==
    IF position_type \in PositionNames THEN positions(position_type)
    ELSE <<10, 10, 80, 50>>

\* the function object that line 284 returns
MetricsPosFunc == [lambda |-> "col, row"]

\* for i, metric in enumerate(metrics[:4]), line 1058
Shown(n) == IF n < 4 THEN n ELSE 4

\* lines 1059-1064: the box of metric i
BoxOfMetric(i) == metrics_box((i % 2) + 1, (i \div 2) + 1)

(***************************************************************************)
(* Calls of calculate_grid_position, with the column and the row given to  *)
(* the function that a 'metrics_box' call returns, and runs of the metric  *)
(* loop of the dashboard over a list of n metrics; ret holds the regions   *)
(* computed so far.                                                        *)
(***************************************************************************)
MaxBox == 4
MaxMetrics == 5

GridCalls ==
    [position_type : PositionNames \cup {"footer", "metrics"},
     slide_area : {"main", "sidebar"}]
    \cup [position_type : {"metrics_box"}, slide_area : {"main", "sidebar"},
          col : 1..MaxBox, row : 1..MaxBox]

InitGrid ==
    /\ RendererIdle
    /\ \/ /\ pc = "calculate_grid_position"
          /\ args \in GridCalls
       \/ /\ pc = "create_metrics_dashboard_slide"
          /\ args \in [metrics : 0..MaxMetrics]
    /\ ret = NotCalled
    /\ files = {} /\ prs = NoPresentation /\ consumed = 0 /\ exit_code = -1
    /\ stderr = <<>>
    /\ argv = <<>> /\ json_data = <<>> /\ stdout = <<>> /\ uncaught = ""

GridStep ==
    /\ UNCHANGED <<argv, stderr, json_data, stdout, uncaught, files, args, prs,
                   exit_code>>
    /\ UNCHANGED rendererVars

\* line 286
CallGridPosition ==
    /\ pc = "calculate_grid_position"
    /\ args.position_type # "metrics_box"
    /\ ret' = Ok(calculate_grid_position(args.position_type, args.slide_area))
    /\ pc' = "returned"
    /\ UNCHANGED consumed
    /\ GridStep

\* lines 282-284
CallGridMetricsBox ==
    /\ pc = "calculate_grid_position"
    /\ args.position_type = "metrics_box"
    /\ ret' = Ok(MetricsPosFunc)
    /\ pc' = "metrics_pos_func(col, row)"
    /\ UNCHANGED consumed
    /\ GridStep

\* the caller applies the returned function, as line 1064 does
ApplyMetricsPosFunc ==
    /\ pc = "metrics_pos_func(col, row)"
    /\ ret' = Ok(metrics_box(args.col, args.row))
    /\ pc' = "returned"
    /\ UNCHANGED consumed
    /\ GridStep

BeginDashboard ==
    /\ pc = "create_metrics_dashboard_slide"
    /\ ret' = Ok(<<>>)
    /\ consumed' = 0
    /\ pc' = "for i, metric in enumerate(metrics[:4])"
    /\ GridStep

\* one turn of the loop, lines 1058-1064
MetricTurn ==
    /\ pc = "for i, metric in enumerate(metrics[:4])"
    /\ consumed < Shown(args.metrics)
    /\ ret' = Ok(Append(ret.val, BoxOfMetric(consumed)))
    /\ consumed' = consumed + 1
    /\ UNCHANGED pc
    /\ GridStep

EndDashboard ==
    /\ pc = "for i, metric in enumerate(metrics[:4])"
    /\ consumed = Shown(args.metrics)
    /\ pc' = "returned"
    /\ UNCHANGED <<ret, consumed>>
    /\ GridStep

NextGrid ==
    \/ CallGridPosition \/ CallGridMetricsBox \/ ApplyMetricsPosFunc
    \/ BeginDashboard \/ MetricTurn \/ EndDashboard

SpecGrid == InitGrid /\ [][NextGrid]_vars

(***************************************************************************)
(* Claims about parse_direct_spend_data.                                   *)
(***************************************************************************)
\* how many times x occurs in the sequence s
Count(s, x) == Cardinality({i \in DOMAIN s : s[i] = x})

\* the entries the input holds for click URL id k, by position
InputOf(k) == {i \in DOMAIN records : records[i].feedmob_click_url_id = k}

Parsed == pc = "returned" /\ spend_by_url.exc = ""

\* C1: parse_direct_spend_data partitions its input.  The keys of the result
\* are exactly the click URL ids of the input, each once, and the group of
\* key k holds each entry as many times as the input holds a record of id k
\* with that entry: nothing is lost, duplicated or moved to another group,
\* and records of the same date are all kept.
C1_Partition ==
    Parsed =>
        LET sp == spend_by_url.val
        IN  /\ \A i, j \in DOMAIN sp : sp[i].key = sp[j].key => i = j
            /\ {sp[i].key : i \in DOMAIN sp}
                 = {records[i].feedmob_click_url_id : i \in DOMAIN records}
            /\ \A g \in DOMAIN sp :
                 /\ Len(sp[g].items) = Cardinality(InputOf(sp[g].key))
                 /\ \A i \in InputOf(sp[g].key) :
                      Count(sp[g].items, Entry(records[i]))
                        = Cardinality({j \in InputOf(sp[g].key) :
                                         Entry(records[j]) = Entry(records[i])})

\* two groups, one of them with two records of the same date
C1_Witness ==
    /\ Parsed
    /\ Len(spend_by_url.val) >= 2
    /\ \E g \in DOMAIN spend_by_url.val :
         LET items == spend_by_url.val[g].items
         IN  \E a, b \in DOMAIN items :
               a < b /\ items[a].date = items[b].date /\ items[a] # items[b]

\* C2: after parse_direct_spend_data returns, the dates of every group are
\* non-decreasing, whatever the order of the input.
C2_DatesNonDecreasing ==
    Parsed =>
        \A g \in DOMAIN spend_by_url.val :
            LET items == spend_by_url.val[g].items
            IN  \A a, b \in DOMAIN items : a < b => items[a].date <= items[b].date

\* the input held a record of a later date before one of an earlier date of
\* the same click URL, and the call has returned
C2_Witness ==
    /\ Parsed
    /\ \E i, j \in DOMAIN records :
         /\ i < j
         /\ records[i].feedmob_click_url_id = records[j].feedmob_click_url_id
         /\ records[i].date > records[j].date

(***************************************************************************)
(* Claims about visualize_direct_spend (calls of SpecVisualize).           *)
(***************************************************************************)
\* the document the argument holds: the argument itself, or what its text
\* parses to (null for a text that does not parse)
DocOf(j) == IF j.t = "str" THEN j.doc ELSE j

IsJsonOf(j) == j.t # "str" \/ j.chars = "json"

\* the argument is a record list, bare or under the key `data`
IsBareArray(j) == IsJsonOf(j) /\ DocOf(j).t = "list"

IsDataObject(j) ==
    /\ IsJsonOf(j)
    /\ DocOf(j).t = "dict"
    /\ "data" \in DOMAIN DocOf(j).d
    /\ DocOf(j).d.data.t = "list"

HasRecordList(j) == IsBareArray(j) \/ IsDataObject(j)

RecordsOf(j) == IF IsBareArray(j) THEN DocOf(j).items ELSE DocOf(j).d.data.items

IsErrorPart(part) == part.kind \in {"Error", "Error: Invalid JSON data"}

IsChartPart(part) == part.kind = "chart"

\* C3: visualize_direct_spend never returns partial output.  Whenever the
\* body of the try statement raises, also while a later group is rendered
\* after earlier ones were, the returned text is the error message alone;
\* and a returned text that holds an error message holds nothing else.
C3_NoPartialOutput ==
    pc = "returned" =>
        /\ TryBody(json_data).exc # "" =>
              Len(result) = 1 /\ IsErrorPart(result[1])
        /\ (\E p \in DOMAIN result : IsErrorPart(result[p])) => Len(result) = 1

\* the rendering of a later group raised after a chart was appended to output
C3_Witness ==
    /\ pc = "returned"
    /\ TryBody(json_data).exc # ""
    /\ TryBody(json_data).output # <<>>
    /\ IsChartPart(TryBody(json_data).output[1])

LacksRequiredKey(r) ==
    \E k \in {"feedmob_click_url_id", "date", "feedmob_net_spend",
              "feedmob_gross_spend"} : k \notin DOMAIN r

\* C4: when a record of the input lacks feedmob_click_url_id, date,
\* feedmob_net_spend or feedmob_gross_spend, the result is one error message
\* and no chart; when the records have these four keys, a missing
\* campaign_name raises nothing: no KeyError is reported, and spends that
\* are plain ints give a chart for every group.
C4_MissingFieldIsError ==
    (pc = "returned" /\ HasRecordList(json_data)) =>
        LET rs == RecordsOf(json_data)
        IN  /\ (\E i \in DOMAIN rs : LacksRequiredKey(rs[i])) =>
                  /\ Len(result) = 1
                  /\ result[1].kind = "Error"
                  /\ result[1].exc = "KeyError"
            /\ (rs # <<>> /\ \A i \in DOMAIN rs : ~LacksRequiredKey(rs[i])) =>
                  /\ \A p \in DOMAIN result :
                        IsErrorPart(result[p]) => result[p].exc # "KeyError"
                  /\ (\A i \in DOMAIN rs :
                        /\ rs[i].feedmob_net_spend.t = "int"
                        /\ rs[i].feedmob_gross_spend.t = "int") =>
                        \A p \in DOMAIN result : IsChartPart(result[p])

\* a record that lacks only campaign_name, then a record that lacks
\* feedmob_gross_spend: the result is the error message alone
C4_Witness ==
    /\ pc = "returned"
    /\ HasRecordList(json_data)
    /\ Len(RecordsOf(json_data)) = 2
    /\ ~LacksRequiredKey(RecordsOf(json_data)[1])
    /\ "campaign_name" \notin DOMAIN RecordsOf(json_data)[1]
    /\ "feedmob_gross_spend" \notin DOMAIN RecordsOf(json_data)[2]
    /\ Len(result) = 1
    /\ result[1].kind = "Error"

\* the inputs the claim calls missing or empty, but for the empty text
IsEmptyDocument(doc) ==
    \/ doc = JsonNull
    \/ doc = JsonList(<<>>)
    \/ doc = JsonDict(EmptyDict)
    \/ doc = JsonDict([data |-> JsonList(<<>>)])

\* C5 as stated: null, [], {}, {"data": []} and the empty text all give the
\* no-data message.
C5_Original ==
    (pc = "returned" /\ (json_data = EmptyText
                           \/ (IsJsonOf(json_data) /\ IsEmptyDocument(DocOf(json_data))))) =>
        result = NoDataMessage

\* C5 amended: null, [], {} and {"data": []}, passed as objects or as JSON
\* text, give the no-data message and no chart; the empty text is no JSON
\* and gives the invalid-JSON error message.
C5_NoData ==
    pc = "returned" =>
        /\ (IsJsonOf(json_data) /\ IsEmptyDocument(DocOf(json_data))) =>
              result = NoDataMessage
        /\ json_data = EmptyText =>
              /\ Len(result) = 1
              /\ result[1].kind = "Error: Invalid JSON data"

C5_Witness ==
    /\ pc = "returned"
    /\ json_data = JsonText(JsonDict([data |-> JsonList(<<>>)]))
    /\ result = NoDataMessage

\* the sum of a column of the data table, from its last row back
RECURSIVE SumOfRows(_, _)
SumOfRows(rows, field) ==
    IF rows = <<>> THEN PyInt(0)
    ELSE PyAdd(rows[1][field], SumOfRows(Tail(rows), field))

\* C9: in every chart block the data table has one row per input record of
\* the block's click URL (its date, net and gross spend), and the TOTAL row
\* is the sum of the net and of the gross spends of these rows; the single
\* record of net 10 and gross 12 gives one block with totals 10 and 12.
C9_TotalsOfTable ==
    (pc = "returned" /\ HasRecordList(json_data)) =>
        LET rs == RecordsOf(json_data)
        IN  /\ \A p \in DOMAIN result :
                 IsChartPart(result[p]) =>
                    LET blk == result[p]
                        mine == {i \in DOMAIN rs :
                                   rs[i].feedmob_click_url_id = blk.title.click_url_id}
                        row(i) == [date |-> rs[i].date,
                                   net |-> rs[i].feedmob_net_spend,
                                   gross |-> rs[i].feedmob_gross_spend]
                    IN  /\ Len(blk.table) = Cardinality(mine)
                        /\ \A i \in mine :
                             Count(blk.table, row(i))
                               = Cardinality({j \in mine : row(j) = row(i)})
                        /\ blk.total_net = SumOfRows(blk.table, "net")
                        /\ blk.total_gross = SumOfRows(blk.table, "gross")
            /\ rs = <<Without(MkRecord(1, 1, PyInt(10), PyInt(12), "A"), "campaign_name")>> =>
                 /\ Len(result) = 1
                 /\ IsChartPart(result[1])
                 /\ result[1].total_net = PyInt(10)
                 /\ result[1].total_gross = PyInt(12)

\* a block of two table rows whose totals are the sums 11 and 14
C9_Witness ==
    /\ pc = "returned"
    /\ HasRecordList(json_data)
    /\ Len(result) = 1
    /\ IsChartPart(result[1])
    /\ Len(result[1].table) = 2
    /\ result[1].total_net = PyInt(11)
    /\ result[1].total_gross = PyInt(14)

\* the object whose `data` key holds the records of the bare array j
Wrapped(j) ==
    IF j.t = "str" THEN JsonText(JsonDict([data |-> j.doc]))
    ELSE JsonDict([data |-> j])

\* C10: for every record list R, visualize_direct_spend returns the same
\* text for the bare array R and for the object whose `data` key holds R.
C10_BareEqualsWrapped ==
    (pc = "returned" /\ IsBareArray(json_data)) =>
        result = visualize_direct_spend(Wrapped(json_data))

\* a bare array of two click URLs that gave two chart blocks
C10_Witness ==
    /\ pc = "returned"
    /\ IsBareArray(json_data)
    /\ Len(result) = 2
    /\ IsChartPart(result[1]) /\ IsChartPart(result[2])

(***************************************************************************)
(* Claims about the script run as __main__ (Spec).                         *)
(***************************************************************************)
\* C6: every error raised in the __main__ block, reading the file or stdin
\* included, is caught and printed as an inline error string; no exception
\* escapes the process.
C6_NoExceptionEscapes ==
    /\ uncaught = ""
    /\ pc = "exited" => stdout # <<>>

(***************************************************************************)
(* Claims about create_ascii_line_chart (calls of SpecChart).              *)
(***************************************************************************)
Charted == pc = "returned" /\ chart.exc = "" /\ data # <<>>

AllValues(d) ==
    [i \in DOMAIN d |-> d[i].net_spend] \o [i \in DOMAIN d |-> d[i].gross_spend]

\* C7: a non-empty group whose net and gross values are all the same number
\* raises no division by zero and gives a complete plot, `height` rows with
\* every data point marked, and the data table.
C7_EqualValuesPlot ==
    (pc = "returned" /\ data # <<>>
       /\ \A i \in DOMAIN AllValues(data) :
             /\ IsNumber(AllValues(data)[i])
             /\ AllValues(data)[i] = AllValues(data)[1]) =>
        /\ chart.exc = ""
        /\ Len(chart.val.plot) = height
        /\ \A i \in DOMAIN data :
              \E j \in DOMAIN chart.val.plot : chart.val.plot[j].line[2 * i - 1] # " "
        /\ Len(chart.val.table) = Len(data)

\* the row a value of the charted group scales to
RowOf(value) ==
    scale(value, MinOf(AllValues(data)),
          BumpMax(MinOf(AllValues(data)), MaxOf(AllValues(data)))).val

\* C8: the plot has one line for every row r of 0..height-1, and in it the
\* character of data point i is '*' when the net and the gross value of i
\* both scale to r, 'N' when only the net value does, 'G' when only the
\* gross value does, and a blank otherwise.
C8_CellMarks ==
    Charted =>
        \A r \in 0..(height - 1) :
            /\ Cardinality({j \in DOMAIN chart.val.plot : chart.val.plot[j].row = r}) = 1
            /\ \A j \in DOMAIN chart.val.plot :
                 chart.val.plot[j].row = r =>
                    \A i \in DOMAIN data :
                        LET n == RowOf(data[i].net_spend) = r
                            g == RowOf(data[i].gross_spend) = r
                        IN  chart.val.plot[j].line[2 * i - 1]
                              = IF n /\ g THEN "*"
                                ELSE IF n THEN "N"
                                ELSE IF g THEN "G"
                                ELSE " "

\* a plot with a point marked '*' and a point marked 'N' and 'G' in
\* different rows
C8_Witness ==
    /\ Charted
    /\ Len(data) = 2
    /\ \E j \in DOMAIN chart.val.plot : chart.val.plot[j].line[1] = "*"
    /\ \E j \in DOMAIN chart.val.plot : chart.val.plot[j].line[3] = "N"
    /\ \E j \in DOMAIN chart.val.plot : chart.val.plot[j].line[3] = "G"

(***************************************************************************)
(* Claims about optimize_content_for_6x6.                                  *)
(***************************************************************************)
\* the number of words of a line and its k-th word, read off the tokens
WordCount(line) == Cardinality({i \in DOMAIN line : line[i] # " "})
WordAt(line, k) ==
    line[CHOOSE i \in DOMAIN line :
            /\ line[i] # " "
            /\ Cardinality({j \in 1..i : line[j] # " "}) = k]

\* the first six words of a line, one space between them, then the ellipsis
SixWordsAndEllipsis(line) ==
    [j \in 1..12 |-> IF j = 12 THEN "..."
                     ELSE IF j % 2 = 1 THEN WordAt(line, (j + 1) \div 2)
                     ELSE " "]

\* C11: the result of optimize_content_for_6x6 has min(6, n) items, the
\* first items of the input in order; an item of more than 6 words has
\* become its first 6 words followed by the ellipsis, an item of at most 6
\* words is returned unchanged.
C11_SixBySix ==
    pc = "optimized" =>
        /\ ret.exc = ""
        /\ Len(ret.val) = (IF Len(args) < 6 THEN Len(args) ELSE 6)
        /\ \A i \in DOMAIN ret.val :
              IF WordCount(args[i]) > 6
              THEN ret.val[i] = SixWordsAndEllipsis(args[i])
              ELSE ret.val[i] = args[i]

\* seven lines were given, one of more than 6 words with irregular white
\* space and one of exactly 6 words among the first six
C11_Witness ==
    /\ pc = "optimized"
    /\ Len(args) = 7
    /\ Len(ret.val) = 6
    /\ \E i \in 1..6 : WordCount(args[i]) > 6 /\ args[i][1] = " "
                       /\ ret.val[i] # args[i]
    /\ \E i \in 1..6 : WordCount(args[i]) = 6 /\ ret.val[i] = args[i]

(***************************************************************************)
(* Claims about select_background_by_content.                              *)
(***************************************************************************)
\* the text the call looks at holds the keyword k
TextHolds(k) ==
    \/ In(k, Lower(args.title))
    \/ \E i \in DOMAIN args.content : In(k, Lower(args.content[i]))

\* the candidates of the i-th category, as paths
Candidates(i) ==
    {BackgroundPath(bg) : bg \in Elements(CONTENT_BACKGROUNDS[i].backgrounds)}

\* C13: when the text holds a keyword of the category table and a file of
\* that keyword's candidate list exists, the returned asset is one of that
\* keyword's candidates, whatever the random choices.  Stated for the first
\* keyword of the table that the text holds, the one the loop meets first.
C13_FromKeywordCandidates ==
    pc = "selected" =>
        \A i \in DOMAIN CONTENT_BACKGROUNDS :
            ( /\ TextHolds(CONTENT_BACKGROUNDS[i].category)
              /\ \A j \in 1..(i - 1) : ~TextHolds(CONTENT_BACKGROUNDS[j].category)
              /\ Candidates(i) \cap files # {} )
            => ret.val \in Candidates(i)

\* C14: select_background_by_content returns None exactly when no file of
\* the background list exists; an asset it returns is an existing file of
\* the list; and when no keyword matches, every existing asset is a
\* possible result of the call.
C14_NoneIffNoAsset ==
    /\ pc = "selected" =>
          /\ ret.val = None <=> BackgroundFiles \cap files = {}
          /\ ret.val # None => ret.val \in BackgroundFiles \cap files
    /\ ( /\ pc = "call select"
         /\ \A i \in DOMAIN CONTENT_BACKGROUNDS :
               ~TextHolds(CONTENT_BACKGROUNDS[i].category) )
       => \A a \in BackgroundFiles \cap files :
             ENABLED (CallSelectBackground /\ ret' = Ok(a))

\* no keyword in the text, three assets exist and the call returned the
\* last of them
C14_Witness ==
    /\ pc = "selected"
    /\ \A i \in DOMAIN CONTENT_BACKGROUNDS :
          ~TextHolds(CONTENT_BACKGROUNDS[i].category)
    /\ files = {BackgroundPath("bg1.jpg"), BackgroundPath("bg3.png"),
                BackgroundPath("bg5.jpg")}
    /\ ret.val = BackgroundPath("bg5.jpg")

(***************************************************************************)
(* Claims about enhance_content_hierarchy.                                 *)
(***************************************************************************)
\* the bullet holds an action verb or matches the metrics pattern
HasVerbOrMetric(bullet) ==
    \/ \E i \in DOMAIN bullet :
          Occurring(lower(bullet[i]))
              \cap {"improve", "increase", "achieve", "deliver", "enhance",
                    "optimize"} # {}
    \/ \E i \in DOMAIN bullet : bullet[i] \in {"25%", "Q3"}

\* C16: enhance_content_hierarchy gives high emphasis to the first bullet,
\* medium emphasis to every other bullet that holds an action verb or
\* matches the numeric pattern, and normal emphasis to the remaining ones.
C16_EmphasisLevels ==
    pc = "enhanced" =>
        \A i \in DOMAIN ret.val :
            ret.val[i].emphasis =
                (IF i = 1 THEN "high"
                 ELSE IF HasVerbOrMetric(args.content[i]) THEN "medium"
                 ELSE "normal")

(***************************************************************************)
(* Claims about create_content_slide.                                      *)
(***************************************************************************)
\* the font has the attribute and it has the value v
FontHas(font, attr, v) == attr \in DOMAIN font /\ font[attr] = v

\* C17: in the slide returned by create_content_slide every bullet ends
\* with the font size of its emphasis level (high 22pt, medium 21pt,
\* normal 20pt) and with the bold flag and the color that
\* enhance_content_hierarchy chose; no later styling step replaces them.
C17_BulletsKeepEmphasisStyle ==
    pc = "slide created" =>
        LET levels == enhance_content_hierarchy(
                          optimize_content_for_6x6(args.content),
                          args.color_scheme)
            body == ret.val.body
        IN  \A i \in DOMAIN levels :
                /\ i \in DOMAIN body
                /\ FontHas(body[i].font, "size",
                           CASE levels[i].emphasis = "high" -> 22
                             [] levels[i].emphasis = "medium" -> 21
                             [] OTHER -> 20)
                /\ FontHas(body[i].font, "bold", levels[i].bold)
                /\ FontHas(body[i].font, "color", levels[i].color)

(***************************************************************************)
(* Claims about the decks of create_presentation_from_json and             *)
(* create_simple_presentation.                                             *)
(***************************************************************************)
\* the run is one of create_presentation_from_json
FromJson == "title" \notin DOMAIN args
InLoopOrAfter == pc \in {"for slide_data in slides_data", "returned"}

TitleBuilders ==
    {"create_title_slide", "create_professional_title_slide",
     "create_feedmob_title_slide"}
ContentBuilders ==
    {"create_content_slide", "create_content_slide_with_background",
     "create_feedmob_content_slide"}

\* the builders of a type tag
BuildersOf(slide_type) ==
    CASE slide_type = "title" -> TitleBuilders
      [] slide_type = "content" -> ContentBuilders
      [] slide_type = "visual_content" -> {"create_visual_content_slide"}
      [] slide_type = "metrics_dashboard" -> {"create_metrics_dashboard_slide"}
      [] slide_type = "section_header" -> {"create_section_header_slide"}
      [] slide_type = "comparison" -> {"create_comparison_slide"}
      [] slide_type = "two_column" -> {"create_two_column_slide"}
      [] slide_type = "blank" -> {"create_blank_slide"}
      [] OTHER -> {}

\* the type tag of the i-th spec of the JSON document
TypeOf(i) ==
    IF "type" \in DOMAIN json_data.slides[i] THEN json_data.slides[i].type
    ELSE "content"

\* C12: every slide that create_presentation_from_json emits for a content
\* spec shows at most 6 bullet lines, whatever the title, the color scheme,
\* the image field, the auto-background setting and the existing assets.
C12_ContentSlidesShowSixBullets ==
    (FromJson /\ InLoopOrAfter) =>
        \A i \in DOMAIN prs.slides :
            prs.slides[i].builder \in ContentBuilders
                => Len(prs.slides[i].body) <= 6

\* C15: in the decks of both entry points no logo is on a slide that has a
\* background image, nor on a title, section header or metrics dashboard
\* slide.
C15_NoLogoOnBackground ==
    \A i \in DOMAIN prs.slides :
        prs.slides[i].logo # <<>> =>
            /\ prs.slides[i].background = <<>>
            /\ prs.slides[i].builder \notin
                   TitleBuilders \cup {"create_section_header_slide",
                                       "create_metrics_dashboard_slide"}

\* a finished deck in which a slide of a content spec has a background and
\* no logo and another slide has a logo and no background
C15_Witness ==
    /\ pc = "returned"
    /\ \E i \in DOMAIN prs.slides :
          /\ prs.slides[i].builder \in ContentBuilders
          /\ prs.slides[i].background # <<>>
          /\ prs.slides[i].logo = <<>>
    /\ \E i \in DOMAIN prs.slides :
          /\ prs.slides[i].background = <<>>
          /\ prs.slides[i].logo # <<>>

\* the positions, among the first k specs, of the specs with a known tag
KnownTags ==
    {"title", "content", "visual_content", "metrics_dashboard",
     "section_header", "comparison", "two_column", "blank"}
KnownAmong(k) == {i \in 1..k : TypeOf(i) \in KnownTags}
\* the position of the j-th of them
NthKnown(j) ==
    CHOOSE i \in KnownAmong(consumed) :
        Cardinality({h \in KnownAmong(consumed) : h <= i}) = j

\* C18 as stated: after the first k specs the document holds exactly k
\* slides, and the final slide count equals the number of specs.
C18_Original ==
    (FromJson /\ InLoopOrAfter) =>
        /\ Len(prs.slides) = consumed
        /\ pc = "returned" => Len(prs.slides) = Len(json_data.slides)

\* C18, amended: every spec whose type is one of the eight known tags (a
\* spec without type counts as content) gives exactly one slide, made by a
\* builder of its tag; after the first k specs the document holds one slide
\* for each such spec among them, in input order, and the final slide count
\* is the number of such specs.  A spec with any other tag gives no slide.
C18_OneSlidePerKnownSpec ==
    (FromJson /\ InLoopOrAfter) =>
        /\ consumed <= Len(json_data.slides)
        /\ pc = "returned" => consumed = Len(json_data.slides)
        /\ Len(prs.slides) = Cardinality(KnownAmong(consumed))
        /\ \A j \in DOMAIN prs.slides :
              LET spec == json_data.slides[NthKnown(j)]
              IN  /\ prs.slides[j].builder \in BuildersOf(TypeOf(NthKnown(j)))
                  /\ ("title" \in DOMAIN spec /\ TypeOf(NthKnown(j)) # "blank")
                        => prs.slides[j].title[1].text = spec.title

\* a finished deck of two specs with different known tags and titles: two
\* slides, in the order of the specs
C18_Witness ==
    /\ FromJson /\ pc = "returned"
    /\ Len(json_data.slides) = 2 /\ Len(prs.slides) = 2
    /\ TypeOf(1) = "title" /\ TypeOf(2) = "content"
    /\ prs.slides[1].builder \in TitleBuilders
    /\ prs.slides[2].builder \in ContentBuilders
    /\ prs.slides[1].title # prs.slides[2].title

\* the files a spec names: background_image of a title spec, image of a
\* content, blank or visual_content spec
NamedFiles(i) ==
    LET spec == json_data.slides[i]
    IN  IF TypeOf(i) = "title"
        THEN (IF "background_image" \in DOMAIN spec
              THEN {spec.background_image} ELSE {})
        ELSE IF TypeOf(i) \in {"content", "blank", "visual_content"}
        THEN (IF "image" \in DOMAIN spec THEN {spec.image} ELSE {})
        ELSE {}

\* C20: when a file named by a slide spec does not exist, a warning is
\* printed for it, the image is left out, the slide is still emitted and
\* the run completes without error.
C20_MissingFileWarned ==
    (FromJson /\ pc = "returned") =>
        /\ uncaught = ""
        /\ Len(prs.slides) = Cardinality(KnownAmong(Len(json_data.slides)))
        /\ \A i \in DOMAIN json_data.slides :
              \A f \in NamedFiles(i) :
                  f \notin files =>
                      /\ \E n \in DOMAIN stdout :
                            /\ stdout[n].msg = "Warning: Image file not found: "
                            /\ stdout[n].arg = f
                      /\ \A j \in DOMAIN prs.slides :
                            /\ prs.slides[j].background # f
                            /\ \A h \in DOMAIN prs.slides[j].pictures :
                                  prs.slides[j].pictures[h] # f

(***************************************************************************)
(* Claims about main() of the deck assembler.                              *)
(***************************************************************************)
\* the cases of a command line, read off argv, the files and the JSON text
NoOutput == "output" \notin DOMAIN argv
BadChoice ==
    /\ "color_scheme" \in DOMAIN argv
    /\ argv.color_scheme \notin
           {"professional", "modern", "corporate", "binance", "feedmob"}
JsonGiven == "json" \in DOMAIN argv
NeitherGiven == ~JsonGiven /\ "title" \notin DOMAIN argv
JsonMissing == JsonGiven /\ argv.json \notin files
JsonUnparsable == JsonGiven /\ ~JsonMissing /\ text.chars # "json"
\* an exception was raised after the arguments were parsed
Raised == ret.exc \notin {"", "not called"}

\* the error lines main prints
ErrorMessages ==
    {"Error: Either --title or --json must be provided",
     "Error: File not found: ", "Error: Invalid JSON format: ",
     "Error creating presentation: "}
ErrorLines(out) == {n \in DOMAIN out : out[n].msg \in ErrorMessages}

\* C19 as stated: with no --output, with neither --title nor --json, with a
\* JSON file that is not found or does not parse, and after any other
\* exception, the process exits with code 1 and has printed an error line.
C19_Original ==
    (pc = "exited"
        /\ (NoOutput \/ NeitherGiven \/ JsonMissing \/ JsonUnparsable
               \/ Raised))
    => /\ exit_code = 1
       /\ ErrorLines(stdout) # {} \/ stderr # <<>>

\* C19, amended: a command line argparse rejects (no --output, or a color
\* scheme that is no choice) ends with exit code 2, the usage line and one
\* error line on standard error, and nothing on standard output.  A command
\* line argparse accepts ends with exit code 1 and exactly one error line
\* on standard output when neither --title nor --json is given (the help
\* text follows the line), when the JSON file is not found, when it does
\* not parse, and when any other exception is raised; the line is the one
\* of the case.  Otherwise the exit code is 0 and no error line is printed.
C19_ExitCodes ==
    pc = "exited" =>
        IF NoOutput \/ BadChoice
        THEN /\ exit_code = 2
             /\ stdout = <<>>
             /\ Len(stderr) = 2
             /\ stderr[1].msg = "usage: "
        ELSE /\ stderr = <<>>
             /\ exit_code \in {0, 1}
             /\ exit_code = 1
                   <=> (NeitherGiven \/ JsonMissing \/ JsonUnparsable
                           \/ Raised)
             /\ Cardinality(ErrorLines(stdout)) = exit_code
             /\ NeitherGiven =>
                   stdout =
                     <<Line("Error: Either --title or --json must be provided",
                            None),
                       Line("usage: ", None)>>
             /\ JsonMissing =>
                   stdout = <<Line("Error: File not found: ", argv.json)>>
             /\ JsonUnparsable =>
                   stdout[Len(stdout)].msg = "Error: Invalid JSON format: "
             /\ (Raised /\ ~JsonMissing /\ ~JsonUnparsable) =>
                   /\ stdout[Len(stdout)].arg = ret.val
                   /\ stdout[Len(stdout)].msg =
                         IF ret.exc = "FileNotFoundError"
                         THEN "Error: File not found: "
                         ELSE "Error creating presentation: "

\* the JSON file holds a list: the exception of line 1436 is taken by the
\* last except clause, the process has exited with code 1 after one line
C19_Witness ==
    /\ pc = "exited"
    /\ ~NoOutput /\ JsonGiven /\ ~JsonMissing
    /\ text = JsonText(JsonList(<<>>))
    /\ exit_code = 1
    /\ stdout = <<Line("Error creating presentation: ", "list")>>

(***************************************************************************)
(* Claims about the automatic backgrounds and logos of the decks.          *)
(***************************************************************************)
\* the two settings of the running entry point
BackgroundsOn ==
    IF FromJson
    THEN (IF "auto_backgrounds" \in DOMAIN json_data
          THEN json_data.auto_backgrounds ELSE TRUE)
    ELSE args.auto_backgrounds
LogosOn ==
    IF FromJson
    THEN (IF "auto_logos" \in DOMAIN json_data
          THEN json_data.auto_logos ELSE TRUE)
    ELSE args.auto_logos

\* the background of the slide is a file of the assets, which only the
\* automatic selection names
AutoBackground(slide) ==
    slide.background # <<>> /\ slide.background[1] = "backgrounds"

InDeckCall ==
    pc \in {"for slide_data in slides_data", "for slide_info in slides",
            "returned"}

\* C21: with automatic backgrounds disabled no slide of the deck has an
\* automatically selected background, and with automatic logos disabled no
\* slide has a logo, in create_presentation_from_json and in
\* create_simple_presentation.
C21_DisabledMeansNone ==
    InDeckCall =>
        /\ ~BackgroundsOn =>
               \A i \in DOMAIN prs.slides : ~AutoBackground(prs.slides[i])
        /\ ~LogosOn =>
               \A i \in DOMAIN prs.slides : prs.slides[i].logo = <<>>

\* a finished deck of two slides made with both settings off while
\* background and logo files exist
C21_Witness ==
    /\ pc = "returned"
    /\ ~BackgroundsOn /\ ~LogosOn
    /\ BackgroundPath("bg4.jpg") \in files
    /\ LogoPath("fm_logo_1.png") \in files
    /\ Len(prs.slides) = 2
    /\ prs.slides[2].builder \in ContentBuilders

\* what the JSON file says of a setting, TRUE when it says nothing
FileSetting(key) ==
    IF key \in DOMAIN text.doc.d THEN text.doc.d[key] ELSE TRUE

\* C22: in --json mode create_presentation_from_json is called with the
\* auto_backgrounds and auto_logos values of the JSON file unless the
\* matching flag is on the command line, which turns the setting off.
C22_FileSettingsKept ==
    (pc = "create_presentation_from_json" /\ JsonGiven) =>
        /\ BackgroundsOn =
              (IF "no_auto_backgrounds" \in DOMAIN argv THEN FALSE
               ELSE FileSetting("auto_backgrounds"))
        /\ LogosOn =
              (IF "no_auto_logos" \in DOMAIN argv THEN FALSE
               ELSE FileSetting("auto_logos"))

\* C23: in --title mode the --subtitle text is the subtitle of the title
\* slide, and the --background-image file, when it exists, its background.
C23_TitleSlideOptionsApplied ==
    (pc = "exited" /\ exit_code = 0 /\ ~JsonGiven) =>
        /\ "subtitle" \in DOMAIN argv =>
              /\ prs.slides[1].subtitle # <<>>
              /\ prs.slides[1].subtitle[1].text = argv.subtitle
        /\ ("background_image" \in DOMAIN argv
               /\ argv.background_image \in files) =>
              prs.slides[1].background = argv.background_image

\* argparse accepts the command line
Accepted == ~NoOutput /\ ~BadChoice

\* C24: the output path of the deck assembler ends in .pptx: it is the
\* --output value when that ends in .pptx and the value with .pptx appended
\* when it does not, applying the rule to it again changes nothing, and it
\* is the path the presentation is saved to.
C24_OutputPathSuffix ==
    Accepted =>
        /\ endswith_pptx(output_path[2])
        /\ output_path[1] = argv.output[1]
        /\ output_path[2] =
              (IF argv.output[2] \in {"deck.pptx"} THEN argv.output[2]
               ELSE AddSuffix(argv.output[2]))
        /\ EnsureSuffix(output_path) = output_path
        /\ pc \in {"create_presentation_from_json",
                   "create_simple_presentation", "returned"}
               => args.output_path = output_path
        /\ (pc = "exited" /\ exit_code = 0) => output_path \in files

\* a run given --output out/deck.PPTX has saved out/deck.PPTX.pptx
C24_Witness ==
    /\ pc = "exited" /\ exit_code = 0
    /\ argv.output = <<"out", "deck.PPTX">>
    /\ <<"out", "deck.PPTX.pptx">> \in files
    /\ <<"out", "deck.PPTX">> \notin files

\* the builders of the slide types that take a logo
LogoBuilders ==
    ContentBuilders \cup {"create_comparison_slide",
                          "create_visual_content_slide",
                          "create_two_column_slide"}

\* C25: with automatic logos enabled and a logo file present, every emitted
\* slide of type content, comparison, visual_content or two_column that has
\* no background image has a logo.
C25_LogoWhereNoBackground ==
    (InDeckCall /\ LogosOn
        /\ \E i \in DOMAIN LOGO_IMAGES : LogoPath(LOGO_IMAGES[i]) \in files)
    => \A i \in DOMAIN prs.slides :
           (prs.slides[i].builder \in LogoBuilders
               /\ prs.slides[i].background = <<>>)
           => prs.slides[i].logo # <<>>

\* what a slide shows apart from the asset files chosen
Shape(slide) ==
    [builder |-> slide.builder,
     background |-> slide.background # <<>>,
     logo |-> slide.logo # <<>>]

\* some background file, some logo file exists
AnyBackground ==
    \E i \in DOMAIN BACKGROUND_IMAGES :
        BackgroundPath(BACKGROUND_IMAGES[i]) \in files
AnyLogo == \E i \in DOMAIN LOGO_IMAGES : LogoPath(LOGO_IMAGES[i]) \in files

Field(spec, key, default) == IF key \in DOMAIN spec THEN spec[key] ELSE default

\* the shape of the slide of a spec of create_presentation_from_json, as a
\* function of the spec, the settings and the files that exist
ShapeOfSpec(spec) ==
    LET t == Field(spec, "type", "content")
        scheme == Field(spec, "color_scheme",
                        Field(json_data, "color_scheme", "feedmob"))
        selected == BackgroundsOn /\ AnyBackground
        keyword == \E i \in DOMAIN bg_keywords :
                       In(bg_keywords[i], Lower(Field(spec, "title", <<>>)))
        shape(b, g, l) == [builder |-> b, background |-> g, logo |-> l]
    IN  CASE t = "title" ->
               shape(IF scheme = "feedmob" THEN "create_feedmob_title_slide"
                     ELSE IF Field(spec, "professional_style", FALSE)
                     THEN "create_professional_title_slide"
                     ELSE "create_title_slide",
                     IF Field(spec, "background_image", <<>>) # <<>>
                     THEN spec.background_image \in files ELSE selected,
                     FALSE)
          [] t = "visual_content" ->
               shape("create_visual_content_slide", selected,
                     LogosOn /\ AnyLogo /\ ~selected)
          [] t = "metrics_dashboard" ->
               shape("create_metrics_dashboard_slide", FALSE, FALSE)
          [] t = "content" ->
               LET b == IF scheme = "feedmob" /\ "image" \in DOMAIN spec
                        THEN "create_feedmob_content_slide"
                        ELSE IF selected /\ keyword
                        THEN "create_content_slide_with_background"
                        ELSE "create_content_slide"
               IN  shape(b, b = "create_content_slide_with_background",
                         LogosOn /\ AnyLogo /\ ~(selected /\ keyword))
          [] t = "section_header" ->
               shape("create_section_header_slide", selected, FALSE)
          [] t = "comparison" ->
               shape("create_comparison_slide", FALSE, LogosOn /\ AnyLogo)
          [] t = "two_column" ->
               shape("create_two_column_slide", FALSE, LogosOn /\ AnyLogo)
          [] t = "blank" ->
               shape("create_blank_slide", FALSE,
                     LogosOn /\ AnyLogo /\ Field(spec, "image", <<>>) = <<>>)

\* the shape of the n-th slide of create_simple_presentation
ShapeOfSimple(n) ==
    IF n = 1
    THEN [builder |-> "create_title_slide",
          background |-> BackgroundsOn /\ AnyBackground, logo |-> FALSE]
    ELSE LET keyword ==
                 \E i \in DOMAIN bg_keywords :
                     In(bg_keywords[i],
                        Lower(Field(args.slides[n - 1], "title", <<>>)))
             g == BackgroundsOn /\ AnyBackground /\ keyword
         IN  [builder |-> IF g THEN "create_content_slide_with_background"
                          ELSE "create_content_slide",
              background |-> g,
              logo |-> LogosOn /\ AnyLogo /\ ~g]

\* C26: in every state of a deck call the number of slides, the builder of
\* each slide and whether it has a background and whether it has a logo
\* are functions of the input, the specs consumed and the files that exist;
\* the random choices, which these functions do not see, change only the
\* asset file used.
C26_RandomChoicesKeepShape ==
    InDeckCall =>
        IF FromJson
        THEN /\ Len(prs.slides) = Cardinality(KnownAmong(consumed))
             /\ \A j \in DOMAIN prs.slides :
                   Shape(prs.slides[j])
                       = ShapeOfSpec(json_data.slides[NthKnown(j)])
        ELSE /\ Len(prs.slides) = consumed + 1
             /\ \A j \in DOMAIN prs.slides :
                   Shape(prs.slides[j]) = ShapeOfSimple(j)

\* a finished deck whose slide has the second logo file although the first
\* exists too: the random choice had two outcomes
C26_Witness ==
    /\ pc = "returned"
    /\ LogoPath("fm_logo_1.png") \in files
    /\ \E j \in DOMAIN prs.slides :
          prs.slides[j].logo = LogoPath("fm_logo_2.png")
    /\ \E j \in DOMAIN prs.slides :
          /\ prs.slides[j].background = BackgroundPath("bg4.jpg")
          /\ BackgroundPath("bg1.jpg") \in files

\* the marks of data point i over the rows of the plot, top row first
MarksOf(i) ==
    SelectSeq([j \in DOMAIN chart.val.plot |-> chart.val.plot[j].line[2 * i - 1]],
              LAMBDA c : c # " ")

\* C27: for a non-empty group of numbers every net and gross value scales
\* to a row of 0..height-1, the maximum to the top row and the minimum to
\* the bottom row, every data point is marked in exactly one row with '*'
\* or in exactly two rows with one 'N' and one 'G', and every row of the
\* plot has one cell for each data point.
C27_RowsOfValues ==
    (pc = "returned" /\ data # <<>>
        /\ \A i \in DOMAIN AllValues(data) : IsNumber(AllValues(data)[i]))
    => /\ chart.exc = ""
       /\ \A i \in DOMAIN AllValues(data) :
             RowOf(AllValues(data)[i]) \in 0..(height - 1)
       /\ RowOf(MaxOf(AllValues(data))) = height - 1
       /\ RowOf(MinOf(AllValues(data))) = 0
       /\ \A i \in DOMAIN data :
             \/ MarksOf(i) = <<"*">>
             \/ MarksOf(i) \in {<<"N", "G">>, <<"G", "N">>}
       /\ \A j \in DOMAIN chart.val.plot :
             Cardinality({c \in DOMAIN chart.val.plot[j].line : c % 2 = 1})
                 = Len(data)

\* the positions of the input at which a click URL id appears first
FirstAppearances(rs) ==
    {i \in DOMAIN rs :
        \A j \in 1..(i - 1) :
            rs[j].feedmob_click_url_id # rs[i].feedmob_click_url_id}

\* the position of the k-th id to appear
NthAppearance(rs, k) ==
    CHOOSE i \in FirstAppearances(rs) :
        Cardinality({j \in FirstAppearances(rs) : j <= i}) = k

\* the position of the earliest-dated record with the id of record i, the
\* first of them in input order when dates tie
EarliestOf(rs, i) ==
    CHOOSE e \in DOMAIN rs :
        /\ rs[e].feedmob_click_url_id = rs[i].feedmob_click_url_id
        /\ \A j \in DOMAIN rs :
              rs[j].feedmob_click_url_id = rs[i].feedmob_click_url_id =>
                  \/ rs[j].date > rs[e].date
                  \/ (rs[j].date = rs[e].date /\ j >= e)

NameOf(r) == IF "campaign_name" \in DOMAIN r THEN r.campaign_name ELSE "Unknown"

\* the call returned chart blocks for a non-empty record list
Rendered ==
    /\ pc = "returned"
    /\ HasRecordList(json_data)
    /\ RecordsOf(json_data) # <<>>
    /\ \A p \in DOMAIN result : IsChartPart(result[p])

\* C28: when visualize_direct_spend renders a record list, it emits exactly
\* one chart block per distinct feedmob_click_url_id, in the order in which
\* the ids first appear in the input, and the title of each block carries
\* the id and the campaign name of the group's earliest-dated record: the
\* first such record in input order when dates tie, 'Unknown' when that
\* record has no campaign_name.
C28_BlocksInFirstAppearanceOrder ==
    Rendered =>
        LET rs == RecordsOf(json_data)
        IN  /\ Len(result) = Cardinality(FirstAppearances(rs))
            /\ \A k \in DOMAIN result :
                  LET i == NthAppearance(rs, k)
                  IN  /\ result[k].title.click_url_id = rs[i].feedmob_click_url_id
                      /\ result[k].title.campaign_name
                            = NameOf(rs[EarliestOf(rs, i)])

\* a rendered group whose earliest record comes later in the input than a
\* record of another campaign name
C28_Witness ==
    /\ Rendered
    /\ \E i, j \in DOMAIN RecordsOf(json_data) :
          LET rs == RecordsOf(json_data)
          IN  /\ i < j
              /\ rs[i].feedmob_click_url_id = rs[j].feedmob_click_url_id
              /\ rs[j].date < rs[i].date
              /\ NameOf(rs[i]) # NameOf(rs[j])
              /\ result[1].title.campaign_name = NameOf(rs[j])

\* the step consumes the next spec of the JSON document
ConsumesSpec ==
    /\ FromJson
    /\ pc = "for slide_data in slides_data"
    /\ consumed' = consumed + 1

\* C29: in create_presentation_from_json the turn of a spec with no `type`
\* field appends one slide made by a content builder, and the turn of a
\* spec whose type is not one of the eight known tags raises nothing,
\* prints nothing and leaves the document as it was: the loop goes on to
\* the next spec.
C29_UntypedIsContentUnknownIsSkipped ==
    [][ConsumesSpec =>
          LET spec == json_data.slides[consumed + 1]
          IN  /\ "type" \notin DOMAIN spec =>
                    /\ Len(prs'.slides) = Len(prs.slides) + 1
                    /\ SubSeq(prs'.slides, 1, Len(prs.slides)) = prs.slides
                    /\ prs'.slides[Len(prs'.slides)].builder \in ContentBuilders
                    /\ pc' = pc /\ ret' = ret
              /\ ("type" \in DOMAIN spec /\ spec.type \notin KnownTags) =>
                    /\ prs' = prs
                    /\ pc' = pc /\ ret' = ret
                    /\ stdout' = stdout /\ stderr' = stderr
                    /\ files' = files]_vars

\* a finished deck of a spec of an unknown type followed by a spec without
\* type: one slide, of a content builder, with the title of the second spec
C29_Witness ==
    /\ FromJson /\ pc = "returned"
    /\ Len(json_data.slides) = 2
    /\ "type" \in DOMAIN json_data.slides[1]
    /\ json_data.slides[1].type \notin KnownTags
    /\ "type" \notin DOMAIN json_data.slides[2]
    /\ Len(prs.slides) = 1
    /\ prs.slides[1].builder \in ContentBuilders
    /\ prs.slides[1].title[1].text = json_data.slides[2].title

(***************************************************************************)
(* Claims about calculate_grid_position (calls of SpecGrid).               *)
(***************************************************************************)
\* the region lies inside the slide
Inside(region) ==
    /\ region[1] >= 0 /\ region[2] >= 0
    /\ region[1] + region[3] <= SlideWidth
    /\ region[2] + region[4] <= SlideHeight

\* the two regions share area
Overlapping(r, s) ==
    /\ r[1] < s[1] + s[3] /\ s[1] < r[1] + r[3]
    /\ r[2] < s[2] + s[4] /\ s[2] < r[2] + r[4]

GridCallReturned == pc = "returned" /\ "position_type" \in DOMAIN args
InDashboard == "metrics" \in DOMAIN args /\ ret.exc = ""

\* C30: every region that calculate_grid_position returns (title, subtitle,
\* content_left, content_right, visual_content, the default region, and
\* the metrics boxes of columns 1..2 and rows 1..2) lies inside the 10 in x
\* 7.5 in slide, and the boxes that the dashboard places for its metrics
\* lie inside the slide and do not overlap one another.
C30_RegionsInsideSlide ==
    /\ (GridCallReturned /\ args.position_type # "metrics_box") => Inside(ret.val)
    /\ (GridCallReturned /\ args.position_type = "metrics_box"
           /\ args.col \in 1..2 /\ args.row \in 1..2) => Inside(ret.val)
    /\ InDashboard =>
          \A i, j \in DOMAIN ret.val :
              /\ Inside(ret.val[i])
              /\ i # j => ~Overlapping(ret.val[i], ret.val[j])

=============================================================================
